---- MODULE Spec2Model ----
(***************************************************************************)
(* A model of the arbitrage bot's execution core:                          *)
(*   - PositionManager (src/src/core/position_manager.py)                  *)
(*   - OrderManager    (src/src/core/order_manager.py)                     *)
(*   - RiskManager     (src/src/core/risk_manager.py)                      *)
(*   - ArbitrageBot    (src/src/bot.py), the opportunity handler           *)
(*   - ArbitrageDetector (src/src/core/arbitrage_detector.py)              *)
(*                                                                         *)
(* Coroutines are cut at their awaits: one action runs from one            *)
(* suspension point to the next, as the asyncio event loop runs it.        *)
(* Decimal amounts are integers (sizes in whole units, prices in USD);     *)
(* None is the value 0 of a price (venue prices are positive).             *)
(***************************************************************************)
EXTENDS Integers, Sequences, FiniteSets, TLC

\* ------------------------------------------------------------------ bounds
MaxPositions == 4      \* position ids (uuid4), one per opportunity handler run
MaxEmitted == 2        \* normalized quotes emitted by the supervised adapter
MaxLogClock == 2       \* ticks of the logger's UTC clock the model follows
TicksPerDay == 2       \* ticks of that clock in one UTC day
MaxSaveRounds == 3     \* rounds of the save task
MaxHandlers == 2       \* handlers running concurrently in the lifecycle specifications
MaxClosers == 2        \* concurrent close_position callers
MaxSize == 2           \* largest recommended_size of an opportunity
MaxTicks == 4          \* clock ticks the model lets pass
MaxDirectCalls == 3    \* direct place_order calls of the order-manager model
MaxOpportunityCounter == 3  \* the detector takes no further call past this count
MaxExtraPolls == 1     \* status queries the model follows past max_attempts
MaxTimestamp == 2      \* the venues' ticker timestamps run from 1 to this
MaxArrivals == 4       \* quotes that arrive in the delivery model
MaxQueue == 2          \* the recorder queue's maxsize in the model (200000 in the program)
MaxClockTicks == 8     \* seconds the recorder model follows
MaxFrameTime == 5      \* venue timestamps run from 0 to this, in 100 ms
MaxLevels == 2          \* levels of an order book side
MaxVolume == 2          \* the volume of a level runs from 1 to this
EntryLongPrice == 1000  \* the price at which the monitored position's long leg was filled
MaxWall == 2           \* the adapters' own clock runs from 0 to this, in 100 ms
BasePrice == 100000    \* the lowest quoted price, in price units
MaxDelta == 2          \* quotes lie at most this many units above BasePrice
MaxStream == 5         \* quotes of the stream that is recorded and replayed
MaxRows == 4           \* rows of the price log the backtest reads
MaxDays == 1           \* UTC days the periodic task is followed after the first midnight
MaxOverrun == 1        \* seconds a round of the periodic task may take beyond its sleep

\* ------------------------------------------------------- program constants
cooldown_period == 300
price_change_threshold_inverse == 100000   \* 1 / 0.00001, the default threshold (price_logger.py:340)
periodic_sleep == 300   \* await asyncio.sleep(300) of _periodic_tasks (bot.py:147)
max_position_size == 10000
max_total_exposure == 50000
max_positions_per_symbol == 3
max_total_positions == 10
max_exchange_exposure == 20000
\* Block durations, in minutes: block_symbol / block_exchange's default and
\* the one _on_connection_failed passes.
default_block_minutes == 60
connection_block_minutes == 30
\* OrderManager._monitor_order
max_attempts == 60
queue_full_warning_interval == 5
max_reconnect_attempts == 10
infeasible_slippage == 999
\* Percentages of the position monitor, in hundredths of a percent.
exit_spread_target == 10
stop_loss_percentage == 200
\* The adapters' minimum gaps, in units of 100 ms.
ticker_gap == 5
orderbook_gap == 2
trade_gap == 1
\* Adapter quotes are held in units of 1/PriceQuantum, the grain of the spread
\* the adapters put around a trade price (price * 0.0005 / 2).
PriceQuantum == 4000
\* ArbitrageDetector.__init__ defaults; the spread threshold is in hundredths
\* of a percent (0.5 % = 50).
default_min_spread_threshold == 50
detector_max_position_size == 10000
default_min_profit_threshold == 10

\* One clock tick, in seconds, and the price grid, in USD.
TickSeconds == 100
SecondsPerMinute == 60
PriceStep == 5000

PosIds == 1..MaxPositions
Handlers == 1..MaxHandlers
Closers == 1..MaxClosers
Symbols == {"BTC", "ETH"}
Venues == {"A", "B", "C"}
Sizes == 1..MaxSize
NoPrice == 0
Prices == {PriceStep, 2 * PriceStep}
NoTime == -1

\* interfaces/exchange.py: OrderStatus
OrderStatus == {"PENDING", "OPEN", "PARTIALLY_FILLED", "FILLED", "CANCELLED", "REJECTED"}
\* position_manager.py: PositionStatus
PositionStatus == {"PENDING", "OPENING", "OPEN", "CLOSING", "CLOSED", "FAILED"}

NoOrder == [status |-> "NONE", filled |-> 0, price |-> NoPrice, quantity |-> 0]
\* The adapter call raised instead of returning an Order.
Raised == [status |-> "RAISE", filled |-> 0, price |-> NoPrice, quantity |-> 0]

\* What a venue adapter's place_order can answer for a market order of
\* `size`: an Order in any status, or an exception ("RAISE").  A FILLED order
\* has filled = quantity, a PARTIALLY_FILLED one 0 < filled < quantity.
FilledFor(st, size) ==
    CASE st = "FILLED" -> {size}
      [] st = "PARTIALLY_FILLED" -> 1..(size - 1)
      [] OTHER -> {0}

VenueOrders(size) ==
    { o \in [status : OrderStatus, filled : 0..size,
             price : {NoPrice, PriceStep}, quantity : {size}] :
        o.filled \in FilledFor(o.status, size) }

VenueAnswers(size) == VenueOrders(size) \cup {Raised}

VARIABLES
    \* PositionManager
    positions,          \* position id -> ArbitragePosition (status "NONE": not created)
    active_positions,   \* keys of PositionManager.active_positions
    position_history,   \* PositionManager.position_history, as position ids
    status_edges,       \* history: every assignment status := t made while it was s
    position_failed_calls,   \* history: position id -> runs of the position_failed callbacks for it
    \* opportunity handler tasks (ArbitrageBot._on_arbitrage_opportunity)
    hpc, hopp,
    hreason,            \* the reason of the handler's last validate_opportunity
    \* close_position callers
    cpc, ctarget, cresult,
    cbegan,             \* history: the caller performed OPEN -> CLOSING
    \* RiskManager
    current_exposure, exchange_exposure, last_trade_time,
    gate_accepted,      \* history: symbol -> the last acceptance that led to an open
    \* wall clock, in seconds
    now,
    \* OrderManager and the venues behind it
    venue_submitted,    \* client_order_id -> calls of the adapter's place_order
    active_orders,      \* OrderManager.active_orders, keyed by the venue's order id
    \* ArbitrageDetector
    min_spread_threshold, min_profit_threshold,
    price_cache,        \* symbol -> the venues' tickers, in insertion order
    opportunity_counter,
    emitted,            \* the opportunities of the last check_arbitrage
    \* RiskManager block lists and the connection events that feed them
    blocked_symbols, blocked_exchanges,
    block_expiry,       \* history: symbol or venue -> the end of its block's duration
    ws_connected,       \* venues whose last connection event was not a failure
    \* ArbitrageBot.start / stop
    running,
    spc,                \* where the stop() call stands
    stop_targets,       \* the positions _close_all_positions found active
    \* OrderManager._monitor_order, for one order
    mpc, morder, attempt,
    mpolls              \* history: the status queries the monitor has made

VARIABLES
    \* concurrent ArbitrageDetector.update_price calls
    upc,   \* venue -> where its reader task's update_price call stands
    opportunities,   \* venue -> that call's opportunities not yet handed to the callback
    trigger,   \* venue -> the arrival number of that call's quote
    arrivals,   \* history: the quotes that have arrived
    delivered   \* history: per callback invocation, the arrival number of the triggering quote

VARIABLES
    \* PriceLogger
    price_queue,   \* PriceLogger.price_queue, oldest first
    last_queue_full_warning,
    clock,   \* time.time(), in seconds
    warnings,   \* history: the times at which the overflow warning was logged
    last_call   \* history: the last price_callback call, with the queue before and after

VARIABLES
    \* BitgetExchange and BybitExchange, for one symbol
    wall,   \* the adapters' datetime.now(), in 100 ms
    _last_ticker_times,   \* BitgetExchange: symbol -> time of the last ticker quote
    _last_orderbook_times,
    _last_trade_times,
    stream_last,   \* history: venue, stream kind -> timestamp of the last quote passed on
    last_event   \* history: the last frame an adapter parsed and what became of it

VARIABLES
    \* WebSocketManager and the adapter it supervises
    connections,   \* WebSocketManager.connections, as venue names
    websocket,   \* the adapter holds a websocket object
    is_ws_connected,
    subscribed_symbols,
    attempts,   \* _monitor_connection's counter
    subscribed_before_loss,   \* history: subscribed_symbols when the transport was last lost
    restored   \* history: the supervisor has reconnected the adapter since the last loss

VARIABLES
    \* the slippage estimators
    estimator,   \* which slippage function was called last
    book,   \* the order book side it walked: <<price, volume>> levels, best first
    requested,   \* the requested size
    slippage   \* what it returned or raised

VARIABLES
    \* ArbitrageBot._monitor_positions, for one position
    monitored,   \* the position _monitor_positions looks at: status and unrealized_pnl
    aggregator_cache,   \* PriceAggregator.price_cache of its symbol: venue -> Ticker
    overdue,   \* the position has been open for more than 24 hours
    selection   \* history: what the last round of _monitor_positions did with the position

VARIABLES
    \* ArbitrageBot._periodic_tasks and the daily reset
    periodic,   \* position of _periodic_tasks: "stopped" or "sleeping"
    utc_now,   \* the wall clock, in seconds of UTC since a UTC midnight
    utc_offset,   \* what the host zone adds to UTC to give datetime.now()
    reset_runs   \* history: UTC day -> runs of reset_daily_stats in that day

VARIABLES
    \* PriceLogger: delta recording of one symbol
    latest_prices,   \* PriceLogger.latest_prices: venue -> the newest Ticker, or NoQuote
    last_saved_prices,   \* PriceLogger.last_saved_prices: venue -> the last recorded Ticker, or NoQuote
    last_round   \* history: what the last round of _save_prices_periodically saw and sent

VARIABLES
    \* one quote stream, recorded in delta mode, replayed whole and as recorded
    full_cache,   \* price_cache of the detector fed with every quote
    delta_cache,   \* price_cache of the detector fed with the recorded quotes only
    recorded,   \* venue -> the last recorded quote, or NoQuote
    full_decisions,   \* history: the directions found on the full stream, repeats dropped
    delta_decisions,   \* history: the directions found on the recorded stream, repeats dropped
    streamed   \* quotes of the stream so far

VARIABLES
    \* BacktestEngine
    backtest,   \* position of run_backtest: "none", "running", "returned" or "raised"
    fee_rate,   \* BacktestEngine.fee_rate, a fraction
    slippage_rate,   \* BacktestEngine.slippage, a fraction
    open_positions,   \* BacktestEngine.open_positions, its values in insertion order
    closed_trades,   \* BacktestEngine.closed_trades
    entered,   \* history: positions _try_enter_position has recorded
    rows   \* rows of the log read so far

VARIABLES
    \* the wiring of ArbitrageBot: adapter -> hub -> aggregator -> detector
    price_callbacks,   \* the supervised adapter's price_callbacks list, as callable names
    subscribers,   \* WebSocketManager.subscribers: event type -> callable names
    update_callbacks,   \* PriceAggregator.update_callbacks, as callable names
    quotes_emitted,   \* the normalized quotes the adapter passed to its price_callbacks loop
    price_callback_calls   \* calls made by that loop

VARIABLES
    \* PriceLogger: the CSV queue, its writer task and the shutdown
    csv_queue,   \* PriceLogger.csv_queue: rows waiting for the writer
    csv_batch,   \* the batch the writer task has collected and not yet written
    log_clock,   \* datetime.now(timezone.utc), in ticks
    current_date,   \* PriceLogger.current_date, as a day number; NoTime for None
    csv_files,   \* the rows of the venue's log file of each UTC day
    shutdown_event,   \* PriceLogger.shutdown_event.is_set()
    shutdown_at,   \* the clock when shutdown_event was set; NoTime before
    csv_writer_task,   \* "running", "finished" (its loop ended) or "cancelled"
    cleaned_up,   \* _cleanup has run
    save_rounds,   \* rounds of the save task so far
    last_enqueued   \* per venue, the newest quote csv_queue accepted

posVars == <<positions, active_positions, position_history, status_edges,
            position_failed_calls>>
handlerVars == <<hpc, hopp, hreason>>
closerVars == <<cpc, ctarget, cresult, cbegan>>
riskVars == <<current_exposure, exchange_exposure, last_trade_time>>
orderVars == <<venue_submitted, active_orders>>
detectorVars == <<min_spread_threshold, min_profit_threshold, price_cache,
                  opportunity_counter, emitted>>
blockVars == <<blocked_symbols, blocked_exchanges, block_expiry, ws_connected>>
\* The state of the components added to the execution core.
shutdownVars == <<running, spc, stop_targets>>
monitorVars == <<mpc, morder, attempt, mpolls>>
deliveryVars == <<upc, opportunities, trigger, arrivals, delivered>>
recorderVars == <<price_queue, last_queue_full_warning, clock, warnings, last_call>>
adapterVars == <<wall, _last_ticker_times, _last_orderbook_times, _last_trade_times, stream_last, last_event>>
supervisorVars == <<connections, websocket, is_ws_connected, subscribed_symbols, attempts, subscribed_before_loss, restored>>
slippageVars == <<estimator, book, requested, slippage>>
convergenceVars == <<monitored, aggregator_cache, overdue, selection>>
dailyVars == <<periodic, utc_now, utc_offset, reset_runs>>
deltaVars == <<latest_prices, last_saved_prices, last_round>>
replayVars == <<full_cache, delta_cache, recorded, full_decisions, delta_decisions, streamed>>
backtestVars == <<backtest, fee_rate, slippage_rate, open_positions, closed_trades, entered, rows>>
wiringVars == <<price_callbacks, subscribers, update_callbacks, quotes_emitted, price_callback_calls>>
csvVars == <<csv_queue, csv_batch, log_clock, current_date, csv_files, shutdown_event, shutdown_at, csv_writer_task, cleaned_up, save_rounds, last_enqueued>>
extVars == <<blockVars, shutdownVars, monitorVars, deliveryVars, recorderVars, adapterVars, supervisorVars, slippageVars, convergenceVars, dailyVars, deltaVars, replayVars, backtestVars, wiringVars, csvVars>>
\* Per component, the other components' state.
blockOthers == <<shutdownVars, monitorVars, deliveryVars, recorderVars, adapterVars, supervisorVars, slippageVars, convergenceVars, dailyVars, deltaVars, replayVars, backtestVars, wiringVars, csvVars>>
shutdownOthers == <<blockVars, monitorVars, deliveryVars, recorderVars, adapterVars, supervisorVars, slippageVars, convergenceVars, dailyVars, deltaVars, replayVars, backtestVars, wiringVars, csvVars>>
monitorOthers == <<blockVars, shutdownVars, deliveryVars, recorderVars, adapterVars, supervisorVars, slippageVars, convergenceVars, dailyVars, deltaVars, replayVars, backtestVars, wiringVars, csvVars>>
deliveryOthers == <<blockVars, shutdownVars, monitorVars, recorderVars, adapterVars, supervisorVars, slippageVars, convergenceVars, dailyVars, deltaVars, replayVars, backtestVars, wiringVars, csvVars>>
recorderOthers == <<blockVars, shutdownVars, monitorVars, deliveryVars, adapterVars, supervisorVars, slippageVars, convergenceVars, dailyVars, deltaVars, replayVars, backtestVars, wiringVars, csvVars>>
adapterOthers == <<blockVars, shutdownVars, monitorVars, deliveryVars, recorderVars, supervisorVars, slippageVars, convergenceVars, dailyVars, deltaVars, replayVars, backtestVars, wiringVars, csvVars>>
supervisorOthers == <<blockVars, shutdownVars, monitorVars, deliveryVars, recorderVars, adapterVars, slippageVars, convergenceVars, dailyVars, deltaVars, replayVars, backtestVars, wiringVars, csvVars>>
\* The components that neither the supervisor nor its subscribers touch.
reconnectOthers == <<shutdownVars, monitorVars, deliveryVars, recorderVars, adapterVars, slippageVars, convergenceVars, dailyVars, deltaVars, replayVars, backtestVars, wiringVars, csvVars>>
slippageOthers == <<blockVars, shutdownVars, monitorVars, deliveryVars, recorderVars, adapterVars, supervisorVars, convergenceVars, dailyVars, deltaVars, replayVars, backtestVars, wiringVars, csvVars>>
convergenceOthers == <<blockVars, shutdownVars, monitorVars, deliveryVars, recorderVars, adapterVars, supervisorVars, slippageVars, dailyVars, deltaVars, replayVars, backtestVars, wiringVars, csvVars>>
dailyOthers == <<blockVars, shutdownVars, monitorVars, deliveryVars, recorderVars, adapterVars, supervisorVars, slippageVars, convergenceVars, deltaVars, replayVars, backtestVars, wiringVars, csvVars>>
deltaOthers == <<blockVars, shutdownVars, monitorVars, deliveryVars, recorderVars, adapterVars, supervisorVars, slippageVars, convergenceVars, dailyVars, replayVars, backtestVars, wiringVars, csvVars>>
replayOthers == <<blockVars, shutdownVars, monitorVars, deliveryVars, recorderVars, adapterVars, supervisorVars, slippageVars, convergenceVars, dailyVars, deltaVars, backtestVars, wiringVars, csvVars>>
backtestOthers == <<blockVars, shutdownVars, monitorVars, deliveryVars, recorderVars, adapterVars, supervisorVars, slippageVars, convergenceVars, dailyVars, deltaVars, replayVars, wiringVars, csvVars>>
wiringOthers == <<blockVars, shutdownVars, monitorVars, deliveryVars, recorderVars, adapterVars, supervisorVars, slippageVars, convergenceVars, dailyVars, deltaVars, replayVars, backtestVars, csvVars>>
csvOthers == <<blockVars, shutdownVars, monitorVars, deliveryVars, recorderVars, adapterVars, supervisorVars, slippageVars, convergenceVars, dailyVars, deltaVars, replayVars, backtestVars, wiringVars>>
\* The components that neither the delta recording nor the CSV pipeline touches.
csvDeltaOthers == <<blockVars, shutdownVars, monitorVars, deliveryVars, recorderVars, adapterVars, supervisorVars, slippageVars, convergenceVars, dailyVars, replayVars, backtestVars, wiringVars>>
coreVars == <<posVars, handlerVars, closerVars, riskVars, gate_accepted, now, orderVars,
              detectorVars>>
vars == <<positions, active_positions, position_history, status_edges,
          position_failed_calls, hpc, hopp,
          hreason, cpc, ctarget, cresult, cbegan, current_exposure, exchange_exposure,
          last_trade_time, gate_accepted, now, venue_submitted, active_orders,
          min_spread_threshold, min_profit_threshold, price_cache,
          opportunity_counter, emitted, blocked_symbols, blocked_exchanges,
          block_expiry, ws_connected, running, spc, stop_targets, mpc, morder,
          attempt, mpolls,
          upc, opportunities, trigger, arrivals, delivered,
          price_queue, last_queue_full_warning, clock, warnings, last_call,
          wall, _last_ticker_times, _last_orderbook_times, _last_trade_times, stream_last, last_event,
          connections, websocket, is_ws_connected, subscribed_symbols, attempts, subscribed_before_loss, restored,
          estimator, book, requested, slippage,
          monitored, aggregator_cache, overdue, selection,
          periodic, utc_now, utc_offset, reset_runs,
          latest_prices, last_saved_prices, last_round,
          full_cache, delta_cache, recorded, full_decisions, delta_decisions, streamed,
          backtest, fee_rate, slippage_rate, open_positions, closed_trades, entered, rows,
          price_callbacks, subscribers, update_callbacks, quotes_emitted, price_callback_calls,
          csv_queue, csv_batch, log_clock, current_date, csv_files, shutdown_event, shutdown_at, csv_writer_task, cleaned_up, save_rounds, last_enqueued>>

\* ------------------------------------------------------------ helpers
RECURSIVE SumOver(_, _)
SumOver(f, S) ==
    IF S = {} THEN 0
    ELSE LET k == CHOOSE k \in S : TRUE IN f[k] + SumOver(f, S \ {k})

Max(a, b) == IF a >= b THEN a ELSE b

Legs == {"long", "short", "close_long", "close_short"}
\* client_order_id = f"{position_id}_{leg}"; owner 0 is a direct caller.
ClientOrderId(p, leg) == [owner |-> p, leg |-> leg]
ClientOrderIds == [owner : 0..MaxPositions, leg : Legs]

NoPosition ==
    [status |-> "NONE", symbol |-> "BTC", long_exchange |-> "A", short_exchange |-> "A",
     size |-> 0, long_order |-> NoOrder, short_order |-> NoOrder,
     close_long_order |-> NoOrder, close_short_order |-> NoOrder]

\* An opportunity as the detector emits it: two different venues.
Opportunities ==
    { o \in [symbol : Symbols, buy_exchange : Venues, sell_exchange : Venues,
             recommended_size : Sizes, buy_price : Prices] :
        o.buy_exchange # o.sell_exchange }
NoOpportunity ==
    [symbol |-> "BTC", buy_exchange |-> "A", sell_exchange |-> "A",
     recommended_size |-> 0, buy_price |-> NoPrice]

\* The checks of validate_opportunity that read data outside this model
\* (the estimated slippage, the day's PnL, the block lists, the balances),
\* as the caller's input: TRUE when the check passes.
AllOk == [slippage_ok |-> TRUE, net_spread_ok |-> TRUE, daily_ok |-> TRUE,
          blocked_ok |-> TRUE, balance_ok |-> TRUE]
GateInputs == {AllOk, [AllOk EXCEPT !.net_spread_ok = FALSE],
               [AllOk EXCEPT !.balance_ok = FALSE]}

\* validate_opportunity without the two position-count checks (checks 2 and
\* 3): the variant the position limits are compared against.
validate_opportunity_uncounted(opp, env) ==
    LET position_value == opp.recommended_size * opp.buy_price
        current_total_exposure == SumOver(current_exposure, Symbols)
        last_trade == last_trade_time[opp.symbol]
    IN  IF position_value > max_position_size THEN "position_size"
        ELSE IF current_total_exposure + position_value > max_total_exposure
            THEN "total_exposure"
        ELSE IF \/ exchange_exposure[opp.buy_exchange] + position_value
                      > max_exchange_exposure
                \/ exchange_exposure[opp.sell_exchange] + position_value
                      > max_exchange_exposure
            THEN "exchange_exposure"
        ELSE IF ~env.slippage_ok THEN "slippage"
        ELSE IF ~env.net_spread_ok THEN "net_spread"
        ELSE IF last_trade # NoTime /\ now - last_trade < cooldown_period THEN "cooldown"
        ELSE IF ~env.daily_ok THEN "daily_loss"
        ELSE IF ~env.blocked_ok THEN "blocked"
        ELSE IF ~env.balance_ok THEN "balance"
        ELSE "passed"

\* --------------------------------------------------------- RiskManager
\* validate_opportunity: the reason of the first failing check, or "passed".
validate_opportunity(opp, env) ==
    LET position_value == opp.recommended_size * opp.buy_price
        symbol_positions ==
            Cardinality({p \in active_positions : positions[p].symbol = opp.symbol})
        total_positions == Cardinality(active_positions)
        current_total_exposure == SumOver(current_exposure, Symbols)
        last_trade == last_trade_time[opp.symbol]
    IN  IF position_value > max_position_size THEN "position_size"
        ELSE IF symbol_positions >= max_positions_per_symbol THEN "symbol_positions"
        ELSE IF total_positions >= max_total_positions THEN "total_positions"
        ELSE IF current_total_exposure + position_value > max_total_exposure
            THEN "total_exposure"
        ELSE IF \/ exchange_exposure[opp.buy_exchange] + position_value
                      > max_exchange_exposure
                \/ exchange_exposure[opp.sell_exchange] + position_value
                      > max_exchange_exposure
            THEN "exchange_exposure"
        ELSE IF ~env.slippage_ok THEN "slippage"
        ELSE IF ~env.net_spread_ok THEN "net_spread"
        ELSE IF last_trade # NoTime /\ now - last_trade < cooldown_period THEN "cooldown"
        ELSE IF ~env.daily_ok THEN "daily_loss"
        ELSE IF ~env.blocked_ok THEN "blocked"
        ELSE IF ~env.balance_ok THEN "balance"
        ELSE "passed"

\* position.size * long_order.price; Decimal * None raises TypeError.
position_value_raises(pos) == pos.long_order.price = NoPrice
PositionValue(pos) == pos.size * pos.long_order.price

\* An update that books the position's value on the long venue only.
update_position_opened_long_venue_only(pos) ==
    LET v == PositionValue(pos)
    IN  /\ current_exposure' = [current_exposure EXCEPT ![pos.symbol] = @ + v]
        /\ exchange_exposure' = [exchange_exposure EXCEPT ![pos.long_exchange] = @ + v]
        /\ last_trade_time' = [last_trade_time EXCEPT ![pos.symbol] = now]

\* update_position_opened (risk_manager.py:155-167): the value is added to
\* the symbol and to both venues.
update_position_opened(pos) ==
    LET v == PositionValue(pos)
        e1 == [exchange_exposure EXCEPT ![pos.long_exchange] = @ + v]
    IN  /\ current_exposure' = [current_exposure EXCEPT ![pos.symbol] = @ + v]
        /\ exchange_exposure' = [e1 EXCEPT ![pos.short_exchange] = @ + v]
        /\ last_trade_time' = [last_trade_time EXCEPT ![pos.symbol] = now]

update_position_closed(pos) ==
    LET v == PositionValue(pos)
        e1 == [exchange_exposure EXCEPT ![pos.long_exchange] = Max(0, @ - v)]
    IN  /\ current_exposure' = [current_exposure EXCEPT ![pos.symbol] = Max(0, @ - v)]
        /\ exchange_exposure' = [e1 EXCEPT ![pos.short_exchange] = Max(0, @ - v)]
        /\ UNCHANGED last_trade_time

\* -------------------------------------------------------- OrderManager
\* The id a venue gives a new order: the n-th order under a client id.
FreshOrderId(cid) == <<cid, venue_submitted[cid] + 1>>

\* place_order (order_manager.py:39-105): every call reaches the venue
\* adapter (line 64); the order it returns is stored under its id (line 74),
\* an exception is re-raised.  The monitor task's later move of the order to
\* order_history is not modelled.
place_order(cid, id, ans) ==
    /\ venue_submitted' = [venue_submitted EXCEPT ![cid] = @ + 1]
    /\ active_orders' =
           IF ans = Raised THEN active_orders
           ELSE {o \in active_orders : o.id # id}
                    \cup {[id |-> id, client_order_id |-> cid, order |-> ans]}

\* ----------------------------------------------------- PositionManager
_move_to_history(p, act, hist) ==
    IF p \in act THEN <<act \ {p}, Append(hist, p)>> ELSE <<act, hist>>

NoAcceptance == [time |-> NoTime, h |-> 0]

\* RiskManager.__init__ (risk_manager.py:52-53): nothing is blocked.
InitBlocks ==
    /\ blocked_symbols = {}
    /\ blocked_exchanges = {}
    /\ block_expiry = [x \in Symbols \cup Venues |-> NoTime]
    /\ ws_connected = Venues

\* ArbitrageBot.__init__ (bot.py:24): the bot is not running.
InitShutdown ==
    /\ running = FALSE
    /\ spc = "idle"
    /\ stop_targets = {}

\* No order is being monitored.
InitMonitor ==
    /\ mpc = "idle"
    /\ morder = <<>>
    /\ attempt = 0
    /\ mpolls = 0

InitDelivery ==
    /\ upc = [x \in Venues |-> "idle"]
    /\ opportunities = [x \in Venues |-> <<>>]
    /\ trigger = [x \in Venues |-> 0]
    /\ arrivals = 0
    /\ delivered = <<>>

NoCall == [outcome |-> "none", quote |-> <<>>, before |-> <<>>, after |-> <<>>]

InitRecorder ==
    /\ price_queue = <<>>
    /\ last_queue_full_warning = 0
    /\ clock = queue_full_warning_interval + 1
    /\ warnings = <<>>
    /\ last_call = NoCall

Adapters == {"bitget", "bybit"}
StreamKinds == {"ticker", "books", "trade"}
AdapterSymbols == {"BTC"}
NoEvent == [venue |-> "", kind |-> "", outcome |-> "none", bid |-> 0, ask |-> 0, timestamp |-> NoTime, first |-> TRUE, since |-> 0]

InitAdapters ==
    /\ wall = 0
    /\ _last_ticker_times = [s \in AdapterSymbols |-> NoTime]
    /\ _last_orderbook_times = [s \in AdapterSymbols |-> NoTime]
    /\ _last_trade_times = [s \in AdapterSymbols |-> NoTime]
    /\ stream_last = [v \in Adapters |-> [k \in StreamKinds |-> NoTime]]
    /\ last_event = NoEvent

InitSupervisor ==
    /\ connections = {}
    /\ websocket = FALSE
    /\ is_ws_connected = FALSE
    /\ subscribed_symbols = {}
    /\ attempts = 0
    /\ subscribed_before_loss = {}
    /\ restored = FALSE

NoSlippage == [outcome |-> "none", num |-> 0, den |-> 1]

InitSlippage ==
    /\ estimator = "none"
    /\ book = <<>>
    /\ requested = 0
    /\ slippage = NoSlippage

\* The monitored position: long on LongVenue at 1000, short on ShortVenue at
\* 1010, of size 1.
LongVenue == "A"
ShortVenue == "B"
NoTicker == [bid |-> 0, ask |-> 0, mark_price |-> 0]
NoSelection == [reason |-> "none", status |-> "OPENING", spread |-> 0, ask |-> 1]

InitConvergence ==
    /\ monitored = [status |-> "OPENING", unrealized_pnl |-> 0]
    /\ aggregator_cache = [v \in {LongVenue, ShortVenue} |-> NoTicker]
    /\ overdue = FALSE
    /\ selection = NoSelection

InitDaily ==
    /\ periodic = "stopped"
    /\ utc_now = 0
    /\ utc_offset = 0
    /\ reset_runs = [day \in 0..(MaxDays + 1) |-> 0]

\* The venues the logger records, a slot nobody has written (a missing dict
\* key), and the round before the first one.
DeltaVenues == {"A"}
NoQuote == [bid |-> -1, ask |-> -1]
NoRound == [latest |-> [v \in DeltaVenues |-> NoQuote],
            saved |-> [v \in DeltaVenues |-> NoQuote], csv_items |-> {}]

InitDelta ==
    /\ latest_prices = [v \in DeltaVenues |-> NoQuote]
    /\ last_saved_prices = [v \in DeltaVenues |-> NoQuote]
    /\ last_round = NoRound

ReplayVenues == {"A", "B"}

InitReplay ==
    /\ full_cache = <<>>
    /\ delta_cache = <<>>
    /\ recorded = [v \in ReplayVenues |-> NoQuote]
    /\ full_decisions = <<>>
    /\ delta_decisions = <<>>
    /\ streamed = 0

InitBacktest ==
    /\ backtest = "none"
    /\ fee_rate = [num |-> 0, den |-> 1]
    /\ slippage_rate = [num |-> 0, den |-> 1]
    /\ open_positions = <<>>
    /\ closed_trades = <<>>
    /\ entered = 0
    /\ rows = 0

InitWiring ==
    /\ price_callbacks = {}
    /\ subscribers = [ticker_update |-> {"_handle_ticker_update"},
                    connection_failed |-> {"_on_connection_failed"},
                    connection_restored |-> {"_on_connection_restored"}]
    /\ update_callbacks = {"_on_price_update"}
    /\ quotes_emitted = <<>>
    /\ price_callback_calls = 0

InitCsv ==
    /\ csv_queue = <<>>
    /\ csv_batch = <<>>
    /\ log_clock = 0
    /\ current_date = NoTime
    /\ csv_files = [d \in 0..(MaxLogClock \div TicksPerDay) |-> <<>>]
    /\ shutdown_event = FALSE
    /\ shutdown_at = NoTime
    /\ csv_writer_task = "running"
    /\ cleaned_up = FALSE
    /\ save_rounds = 0
    /\ last_enqueued = [v \in DeltaVenues |-> NoQuote]

InitExecution ==
    /\ positions = [p \in PosIds |-> NoPosition]
    /\ active_positions = {}
    /\ position_history = <<>>
    /\ status_edges = {}
    /\ position_failed_calls = [p \in PosIds |-> 0]
    /\ hpc = [h \in PosIds |-> "idle"]
    /\ hopp = [h \in PosIds |-> NoOpportunity]
    /\ hreason = [h \in PosIds |-> "none"]
    /\ cpc = [c \in Closers |-> "idle"]
    /\ ctarget = [c \in Closers |-> 0]
    /\ cresult = [c \in Closers |-> "none"]
    /\ cbegan = [c \in Closers |-> FALSE]
    /\ current_exposure = [s \in Symbols |-> 0]
    /\ exchange_exposure = [v \in Venues |-> 0]
    /\ last_trade_time = [s \in Symbols |-> NoTime]
    /\ gate_accepted = [s \in Symbols |-> NoAcceptance]
    /\ now = 0
    /\ venue_submitted = [c \in ClientOrderIds |-> 0]
    /\ active_orders = {}
    /\ price_cache = [s \in Symbols |-> <<>>]
    /\ opportunity_counter = 0
    /\ emitted = <<>>
    /\ InitBlocks
    /\ InitShutdown
    /\ InitMonitor
    /\ InitDelivery
    /\ InitRecorder
    /\ InitAdapters
    /\ InitSupervisor
    /\ InitSlippage
    /\ InitConvergence
    /\ InitDaily
    /\ InitDelta
    /\ InitReplay
    /\ InitBacktest
    /\ InitWiring
    /\ InitCsv

\* The detector built with its default thresholds.
Init ==
    /\ InitExecution
    /\ min_spread_threshold = default_min_spread_threshold
    /\ min_profit_threshold = default_min_profit_threshold

\* position.status = t, recorded as an edge when it changes the status.
Edge(p, t) ==
    IF positions[p].status = t THEN {} ELSE {<<positions[p].status, t>>}

\* ---------------------------------------- ArbitrageBot: opportunity handler
\* _on_arbitrage_opportunity up to its first verdict (bot.py:175-182); the
\* slippage fields are still None, so the slippage check cannot fail.
Validate1(h, opp, env) ==
    /\ hpc[h] = "idle"
    /\ env.slippage_ok
    /\ LET reason == validate_opportunity(opp, env)
       IN  /\ hreason' = [hreason EXCEPT ![h] = reason]
           /\ hpc' = [hpc EXCEPT ![h] = IF reason = "passed" THEN "slippage" ELSE "rejected"]
           /\ hopp' = [hopp EXCEPT ![h] = IF reason = "passed" THEN opp ELSE NoOpportunity]
    /\ UNCHANGED <<posVars, closerVars, riskVars, gate_accepted, now, orderVars, detectorVars, extVars>>

\* open_position up to its first await (position_manager.py:98-111).
open_position_begin(h, opp) ==
    /\ positions' = [positions EXCEPT ![h] =
           [NoPosition EXCEPT !.status = "OPENING", !.symbol = opp.symbol,
                              !.long_exchange = opp.buy_exchange,
                              !.short_exchange = opp.sell_exchange,
                              !.size = opp.recommended_size]]
    /\ active_positions' = active_positions \cup {h}

\* After _calculate_slippage: the second verdict, and on acceptance
\* _execute_opportunity -> open_position (bot.py:185-197).
Validate2(h, env) ==
    /\ hpc[h] = "slippage"
    /\ LET reason == validate_opportunity(hopp[h], env)
       IN  /\ hreason' = [hreason EXCEPT ![h] = reason]
           /\ IF reason = "passed"
              THEN /\ open_position_begin(h, hopp[h])
                   /\ hpc' = [hpc EXCEPT ![h] = "place_long"]
                   /\ gate_accepted' = [gate_accepted EXCEPT ![hopp[h].symbol] =
                                            [time |-> now, h |-> h]]
              ELSE /\ hpc' = [hpc EXCEPT ![h] = "rejected"]
                   /\ UNCHANGED <<positions, active_positions, gate_accepted>>
    /\ hopp' = [hopp EXCEPT ![h] = NoOpportunity]
    /\ UNCHANGED <<position_history, status_edges, position_failed_calls, closerVars,
                   riskVars, now,
                   orderVars, detectorVars, extVars>>

\* for callback in self.position_callbacks["position_failed"]: await
\* callback(position) (position_manager.py:166-168, 238-240); the bot's
\* callback only logs (bot.py:290-292).
position_failed(p) ==
    position_failed_calls' = [position_failed_calls EXCEPT ![p] = @ + 1]

\* The except branch of open_position (position_manager.py:161-171), entered
\* when the status is `from`: the status is overwritten whatever it is, then
\* the position moves to history.
open_position_except(h, from_edges) ==
    LET moved == _move_to_history(h, active_positions, position_history)
    IN  /\ positions' = [positions EXCEPT ![h].status = "FAILED"]
        /\ status_edges' = status_edges \cup from_edges
        /\ position_failed(h)
        /\ active_positions' = moved[1]
        /\ position_history' = moved[2]
        /\ hpc' = [hpc EXCEPT ![h] = "done"]

\* The long order's answer arrives (position_manager.py:118-125).
OpenPlaceLong(h, ans) ==
    /\ hpc[h] = "place_long"
    /\ place_order(ClientOrderId(h, "long"),
                   FreshOrderId(ClientOrderId(h, "long")), ans)
    /\ IF ans = Raised
       THEN open_position_except(h, Edge(h, "FAILED"))
       ELSE /\ positions' = [positions EXCEPT ![h].long_order = ans]
            /\ hpc' = [hpc EXCEPT ![h] = "place_short"]
            /\ UNCHANGED <<active_positions, position_history, status_edges,
                           position_failed_calls>>
    /\ UNCHANGED <<hopp, hreason, closerVars, riskVars, gate_accepted, now, detectorVars, extVars>>

\* Both orders count as success when each is FILLED or PARTIALLY_FILLED
\* (position_manager.py:138-139).
orders_succeeded(long_order, short_order) ==
    /\ long_order.status \in {"FILLED", "PARTIALLY_FILLED"}
    /\ short_order.status \in {"FILLED", "PARTIALLY_FILLED"}

\* The short order's answer arrives, then the success check and, on
\* success, status = OPEN and the bot's position_opened callback, which
\* runs without suspending (position_manager.py:128-159, bot.py:280-283).
OpenPlaceShort(h, ans) ==
    /\ hpc[h] = "place_short"
    /\ place_order(ClientOrderId(h, "short"),
                   FreshOrderId(ClientOrderId(h, "short")), ans)
    /\ IF ans = Raised
       THEN /\ open_position_except(h, Edge(h, "FAILED"))
            /\ UNCHANGED riskVars
       ELSE IF orders_succeeded(positions[h].long_order, ans)
       THEN IF position_value_raises(positions[h])
            THEN LET moved == _move_to_history(h, active_positions, position_history)
                 IN  /\ positions' = [positions EXCEPT ![h].short_order = ans,
                                                        ![h].status = "FAILED"]
                     /\ status_edges' = status_edges \cup Edge(h, "OPEN")
                                                     \cup {<<"OPEN", "FAILED">>}
                     /\ position_failed(h)
                     /\ active_positions' = moved[1]
                     /\ position_history' = moved[2]
                     /\ hpc' = [hpc EXCEPT ![h] = "done"]
                     /\ UNCHANGED riskVars
            ELSE /\ positions' = [positions EXCEPT ![h].short_order = ans,
                                                    ![h].status = "OPEN"]
                 /\ status_edges' = status_edges \cup Edge(h, "OPEN")
                 /\ update_position_opened(positions[h])
                 /\ hpc' = [hpc EXCEPT ![h] = "opened_cb"]
                 /\ UNCHANGED <<active_positions, position_history, position_failed_calls>>
       ELSE LET moved == _move_to_history(h, active_positions, position_history)
            IN  /\ positions' = [positions EXCEPT ![h].short_order = ans,
                                                   ![h].status = "FAILED"]
                /\ status_edges' = status_edges \cup Edge(h, "FAILED")
                /\ active_positions' = moved[1]
                /\ position_history' = moved[2]
                /\ hpc' = [hpc EXCEPT ![h] = "done"]
                /\ UNCHANGED <<riskVars, position_failed_calls>>
    /\ UNCHANGED <<hopp, hreason, closerVars, gate_accepted, now, detectorVars, extVars>>

CallbackOutcomes == {"ok", "raise"}

\* The further position_opened callbacks registered with add_callback, each
\* awaited (position_manager.py:150-151): they return, or one raises.
OpenCallbacks(h, cb) ==
    /\ hpc[h] = "opened_cb"
    /\ IF cb = "raise"
       THEN open_position_except(h, Edge(h, "FAILED"))
       ELSE /\ hpc' = [hpc EXCEPT ![h] = "done"]
            /\ UNCHANGED posVars
    /\ UNCHANGED <<hopp, hreason, closerVars, riskVars, gate_accepted, now,
                   orderVars, detectorVars, extVars>>

\* ------------------------------------------ PositionManager.close_position
\* A guard that only refuses positions already closed or failed.
close_position_guard_reentrant(p) ==
    /\ p \in active_positions
    /\ positions[p].status \in {"OPEN", "CLOSING"}

\* The guard of close_position (position_manager.py:177-185).
close_position_guard(p) ==
    /\ p \in active_positions
    /\ positions[p].status = "OPEN"

\* close_position up to its first await (position_manager.py:177-187).
CloseCall(c, p) ==
    /\ cpc[c] = "idle"
    /\ positions[p].status # "NONE"
    /\ ctarget' = [ctarget EXCEPT ![c] = p]
    /\ IF close_position_guard(p)
       THEN /\ positions' = [positions EXCEPT ![p].status = "CLOSING"]
            /\ status_edges' = status_edges \cup Edge(p, "CLOSING")
            /\ cpc' = [cpc EXCEPT ![c] = "close_long"]
            /\ cbegan' = [cbegan EXCEPT ![c] = TRUE]
            /\ UNCHANGED cresult
       ELSE /\ cpc' = [cpc EXCEPT ![c] = "done"]
            /\ cresult' = [cresult EXCEPT ![c] = "false"]
            /\ UNCHANGED <<positions, status_edges, cbegan>>
    /\ UNCHANGED <<active_positions, position_history, position_failed_calls,
                   handlerVars, riskVars, gate_accepted, now, orderVars, detectorVars,
                   extVars>>

\* The except branch of close_position (position_manager.py:232-241): the
\* position stays in active_positions.
close_position_except(c) ==
    /\ positions' = [positions EXCEPT ![ctarget[c]].status = "FAILED"]
    /\ status_edges' = status_edges \cup Edge(ctarget[c], "FAILED")
    /\ position_failed(ctarget[c])
    /\ cpc' = [cpc EXCEPT ![c] = "done"]
    /\ cresult' = [cresult EXCEPT ![c] = "false"]

\* size=position.size of the close orders (position_manager.py:198, 208).
TargetSize(c) == IF ctarget[c] \in PosIds THEN positions[ctarget[c]].size ELSE 0

\* The close-long order's answer arrives (position_manager.py:194-201).
ClosePlaceLong(c, ans) ==
    /\ cpc[c] = "close_long"
    /\ place_order(ClientOrderId(ctarget[c], "close_long"),
                   FreshOrderId(ClientOrderId(ctarget[c], "close_long")), ans)
    /\ IF ans = Raised
       THEN close_position_except(c)
       ELSE /\ positions' = [positions EXCEPT ![ctarget[c]].close_long_order = ans]
            /\ cpc' = [cpc EXCEPT ![c] = "close_short"]
            /\ UNCHANGED <<cresult, status_edges, position_failed_calls>>
    /\ UNCHANGED <<active_positions, position_history, handlerVars, ctarget, cbegan,
                   riskVars, gate_accepted, now, detectorVars, extVars>>

\* _calculate_pnl subtracts the order prices: a None price raises TypeError
\* (position_manager.py:274-277).
calculate_pnl_raises(pos, close_short) ==
    \/ pos.long_order.price = NoPrice
    \/ pos.short_order.price = NoPrice
    \/ pos.close_long_order.price = NoPrice
    \/ close_short.price = NoPrice

\* The close-short answer arrives, then the PnL, status = CLOSED and the
\* bot's position_closed callback, which runs without suspending
\* (position_manager.py:204-225, bot.py:285-288).  No order status is read.
ClosePlaceShort(c, ans) ==
    /\ cpc[c] = "close_short"
    /\ place_order(ClientOrderId(ctarget[c], "close_short"),
                   FreshOrderId(ClientOrderId(ctarget[c], "close_short")), ans)
    /\ IF ans = Raised
       THEN /\ close_position_except(c)
            /\ UNCHANGED riskVars
       ELSE IF calculate_pnl_raises(positions[ctarget[c]], ans)
       THEN /\ positions' = [positions EXCEPT ![ctarget[c]].close_short_order = ans,
                                               ![ctarget[c]].status = "FAILED"]
            /\ status_edges' = status_edges \cup Edge(ctarget[c], "FAILED")
            /\ position_failed(ctarget[c])
            /\ cpc' = [cpc EXCEPT ![c] = "done"]
            /\ cresult' = [cresult EXCEPT ![c] = "false"]
            /\ UNCHANGED riskVars
       ELSE /\ positions' = [positions EXCEPT ![ctarget[c]].close_short_order = ans,
                                               ![ctarget[c]].status = "CLOSED"]
            /\ status_edges' = status_edges \cup Edge(ctarget[c], "CLOSED")
            /\ update_position_closed(positions[ctarget[c]])
            /\ cpc' = [cpc EXCEPT ![c] = "closed_cb"]
            /\ UNCHANGED <<cresult, position_failed_calls>>
    /\ UNCHANGED <<active_positions, position_history, handlerVars, ctarget, cbegan,
                   gate_accepted, now, detectorVars, extVars>>

\* The further position_closed callbacks, then _move_to_history and
\* return True; or one raises (position_manager.py:224-241).
CloseCallbacks(c, cb) ==
    /\ cpc[c] = "closed_cb"
    /\ IF cb = "raise"
       THEN /\ close_position_except(c)
            /\ UNCHANGED <<active_positions, position_history>>
       ELSE LET moved == _move_to_history(ctarget[c], active_positions, position_history)
            IN  /\ active_positions' = moved[1]
                /\ position_history' = moved[2]
                /\ cpc' = [cpc EXCEPT ![c] = "done"]
                /\ cresult' = [cresult EXCEPT ![c] = "true"]
                /\ UNCHANGED <<positions, status_edges, position_failed_calls>>
    /\ UNCHANGED <<handlerVars, ctarget, cbegan, riskVars, gate_accepted, now,
                   orderVars, detectorVars, extVars>>

\* The wall clock advances.
Tick ==
    /\ now < MaxTicks * TickSeconds
    /\ now' = now + TickSeconds
    /\ UNCHANGED <<posVars, handlerVars, closerVars, riskVars, gate_accepted,
                   orderVars, detectorVars, extVars>>

\* ------------------------------------------- OrderManager, called directly
DirectClientOrderIds == {c \in ClientOrderIds : c.owner = 0}

\* The venue's order ids a call under `cid` can come back with: a new one,
\* or, from a venue that answers a repeated client id with the order it
\* already holds, that order's.
VenueOrderIds(cid) ==
    {FreshOrderId(cid)} \cup {o.id : o \in {a \in active_orders : a.client_order_id = cid}}

\* A caller's place_order with a client_order_id of its own choice.
DirectPlaceOrder(cid, id, ans) ==
    /\ SumOver(venue_submitted, DirectClientOrderIds) < MaxDirectCalls
    /\ place_order(cid, id, ans)
    /\ UNCHANGED <<posVars, handlerVars, closerVars, riskVars, gate_accepted, now,
                   detectorVars, extVars>>

\* --------------------------------------------------------- ArbitrageDetector
\* Decimal quotients are exact fractions num/den with den > 0.
Frac(n, d) == [num |-> n, den |-> d]
FracLess(f, k) == f.num < k * f.den
Min(a, b) == IF a <= b THEN a ELSE b

\* volume_24h = None is the volume 0: the code tests its truth value.
NoVolume == 0
TickerPrices == {100, 101}
Tickers ==
    {t \in [bid : TickerPrices, ask : TickerPrices, volume_24h : {NoVolume, 10}] :
        t.bid <= t.ask}

\* _calculate_optimal_size (arbitrage_detector.py:149-161).
_calculate_optimal_size(buy_ticker, sell_ticker) ==
    LET volume_limit ==
            Min(IF buy_ticker.volume_24h # NoVolume
                    THEN buy_ticker.volume_24h \div 10 ELSE detector_max_position_size,
                IF sell_ticker.volume_24h # NoVolume
                    THEN sell_ticker.volume_24h \div 10 ELSE detector_max_position_size)
        size_in_usd == Min(detector_max_position_size, volume_limit * buy_ticker.ask)
    IN  Frac(size_in_usd, buy_ticker.ask)

NoDetection == [id |-> 0]

\* _check_opportunity with the spread test turned strict: a spread equal to
\* the threshold is turned away.
_check_opportunity_strict(buy_exchange, buy_ticker, sell_exchange, sell_ticker, symbol, counter) ==
    LET spread == sell_ticker.bid - buy_ticker.ask
        spread_percentage == Frac(spread * 100 * 100, buy_ticker.ask)
        recommended_size == _calculate_optimal_size(buy_ticker, sell_ticker)
        expected_profit == Frac(spread * recommended_size.num, recommended_size.den)
    IN  IF spread_percentage.num <= min_spread_threshold * spread_percentage.den THEN NoDetection
        ELSE IF recommended_size.num <= 0 THEN NoDetection
        ELSE IF FracLess(expected_profit, min_profit_threshold) THEN NoDetection
        ELSE [id |-> counter + 1, buy_exchange |-> buy_exchange,
              sell_exchange |-> sell_exchange, symbol |-> symbol,
              spread_percentage |-> spread_percentage,
              expected_profit |-> expected_profit,
              buy_price |-> buy_ticker.ask, sell_price |-> sell_ticker.bid,
              recommended_size |-> recommended_size]

\* _check_opportunity (arbitrage_detector.py:104-147), with `counter` the
\* value of opportunity_counter it finds: the opportunity, or NoDetection for
\* None.  The spread threshold is in hundredths of a percent.
_check_opportunity(buy_exchange, buy_ticker, sell_exchange, sell_ticker, symbol, counter) ==
    LET spread == sell_ticker.bid - buy_ticker.ask
        spread_percentage == Frac(spread * 100 * 100, buy_ticker.ask)
        recommended_size == _calculate_optimal_size(buy_ticker, sell_ticker)
        expected_profit == Frac(spread * recommended_size.num, recommended_size.den)
    IN  IF FracLess(spread_percentage, min_spread_threshold) THEN NoDetection
        ELSE IF recommended_size.num <= 0 THEN NoDetection
        ELSE IF FracLess(expected_profit, min_profit_threshold) THEN NoDetection
        ELSE [id |-> counter + 1, buy_exchange |-> buy_exchange,
              sell_exchange |-> sell_exchange, symbol |-> symbol,
              spread_percentage |-> spread_percentage,
              expected_profit |-> expected_profit,
              buy_price |-> buy_ticker.ask, sell_price |-> sell_ticker.bid,
              recommended_size |-> recommended_size]

\* The pairs of the two loops of check_arbitrage, each in both directions,
\* as indices into the cache's entries: <<buy, sell>>.
RECURSIVE PairsFrom(_, _, _)
PairsFrom(i, j, n) ==
    IF i >= n THEN <<>>
    ELSE IF j > n THEN PairsFrom(i + 1, i + 2, n)
    ELSE <<<<i, j>>, <<j, i>>>> \o PairsFrom(i, j + 1, n)

\* check_arbitrage (arbitrage_detector.py:76-102) over the pairs left to
\* visit: <<opportunities, opportunity_counter>>.
RECURSIVE CheckPairs(_, _, _, _)
CheckPairs(prices, pairs, symbol, counter) ==
    IF pairs = <<>> THEN <<<<>>, counter>>
    ELSE LET buy == prices[Head(pairs)[1]]
             sell == prices[Head(pairs)[2]]
             opp == _check_opportunity(buy.exchange, buy.ticker, sell.exchange,
                                       sell.ticker, symbol, counter)
             rest == CheckPairs(prices, Tail(pairs), symbol,
                                IF opp.id = NoDetection.id THEN counter ELSE counter + 1)
         IN  IF opp.id = NoDetection.id THEN rest ELSE <<<<opp>> \o rest[1], rest[2]>>

\* check_arbitrage visiting each venue pair in one direction only.
check_arbitrage_forward_only(prices, symbol, counter) ==
    IF Len(prices) < 2 THEN <<<<>>, counter>>
    ELSE CheckPairs(prices, SelectSeq(PairsFrom(1, 2, Len(prices)), LAMBDA p : p[1] < p[2]),
                    symbol, counter)

check_arbitrage(prices, symbol, counter) ==
    IF Len(prices) < 2 THEN <<<<>>, counter>>
    ELSE CheckPairs(prices, PairsFrom(1, 2, Len(prices)), symbol, counter)

\* self.price_cache[symbol][exchange] = ticker: a dict keeps the place of a
\* key it already has and appends a new one.
CachePut(prices, exchange, ticker) ==
    IF \E i \in DOMAIN prices : prices[i].exchange = exchange
    THEN [i \in DOMAIN prices |->
             IF prices[i].exchange = exchange
             THEN [exchange |-> exchange, ticker |-> ticker] ELSE prices[i]]
    ELSE Append(prices, [exchange |-> exchange, ticker |-> ticker])

\* update_price (arbitrage_detector.py:61-74): the cache update and the
\* check run without suspending; the opportunities then go to the callbacks.
update_price(symbol, exchange, ticker) ==
    /\ opportunity_counter < MaxOpportunityCounter
    /\ LET prices == CachePut(price_cache[symbol], exchange, ticker)
           found == check_arbitrage(prices, symbol, opportunity_counter)
       IN  /\ price_cache' = [price_cache EXCEPT ![symbol] = prices]
           /\ emitted' = found[1]
           /\ opportunity_counter' = found[2]
    /\ UNCHANGED <<posVars, handlerVars, closerVars, riskVars, gate_accepted, now,
                   orderVars, min_spread_threshold, min_profit_threshold, extVars>>

\* A caller's check_arbitrage(symbol) on the cache as it is.
CheckArbitrage(symbol) ==
    /\ opportunity_counter < MaxOpportunityCounter
    /\ LET found == check_arbitrage(price_cache[symbol], symbol, opportunity_counter)
       IN  /\ emitted' = found[1]
           /\ opportunity_counter' = found[2]
    /\ UNCHANGED <<posVars, handlerVars, closerVars, riskVars, gate_accepted, now,
                   orderVars, min_spread_threshold, min_profit_threshold, price_cache,
                   extVars>>

\* ------------------------------------------------ RiskManager: block lists
\* block_symbol (risk_manager.py:209-215): the symbol joins the list unless
\* it is there; the duration is only logged.
block_symbol(symbol, duration_minutes) ==
    /\ symbol \notin blocked_symbols
    /\ blocked_symbols' = blocked_symbols \cup {symbol}
    /\ block_expiry' = [block_expiry EXCEPT ![symbol] = now + duration_minutes * SecondsPerMinute]
    /\ UNCHANGED <<blocked_exchanges, ws_connected, coreVars, blockOthers>>

\* block_exchange (risk_manager.py:217-221), as a state change of the lists.
block_exchange(exchange, duration_minutes) ==
    /\ blocked_exchanges' =
           blocked_exchanges \cup {exchange}
    /\ block_expiry' =
           IF exchange \in blocked_exchanges THEN block_expiry
           ELSE [block_expiry EXCEPT ![exchange] = now + duration_minutes * SecondsPerMinute]
    /\ UNCHANGED blocked_symbols

\* A caller's block_exchange on a venue not yet blocked.
BlockExchange(exchange, duration_minutes) ==
    /\ exchange \notin blocked_exchanges
    /\ block_exchange(exchange, duration_minutes)
    /\ UNCHANGED <<ws_connected, coreVars, blockOthers>>

\* _on_connection_failed (bot.py:294-300): the venue is blocked.
_on_connection_failed(exchange) ==
    /\ exchange \in ws_connected
    /\ ws_connected' = ws_connected \ {exchange}
    /\ block_exchange(exchange, connection_block_minutes)
    /\ UNCHANGED <<coreVars, blockOthers>>

\* _on_connection_restored (bot.py:302-305): a log line; no list changes.
_on_connection_restored(exchange) ==
    /\ exchange \notin ws_connected
    /\ ws_connected' = ws_connected \cup {exchange}
    /\ UNCHANGED <<blocked_symbols, blocked_exchanges, block_expiry, coreVars, blockOthers>>

\* Half an hour passes.
TickHalfHour ==
    /\ now < MaxTicks * connection_block_minutes * SecondsPerMinute
    /\ now' = now + connection_block_minutes * SecondsPerMinute
    /\ UNCHANGED <<posVars, handlerVars, closerVars, riskVars, gate_accepted, orderVars,
                   detectorVars, extVars>>

\* ------------------------------------------------ ArbitrageBot.start / stop
\* start (bot.py:89-108).
Start ==
    /\ spc = "idle"
    /\ ~running
    /\ running' = TRUE
    /\ UNCHANGED <<spc, stop_targets, coreVars, shutdownOthers>>

\* stop up to its first await (bot.py:110-121).
StopBegin ==
    /\ spc = "idle"
    /\ IF running
       THEN running' = FALSE /\ spc' = "ws_stop"
       ELSE spc' = "returned" /\ UNCHANGED running
    /\ UNCHANGED <<stop_targets, coreVars, shutdownOthers>>

StopOutcomes == {"ok", "raise"}

\* ws_manager.stop() has returned, or raised out of stop(); then
\* _close_all_positions up to its gather (bot.py:121-320): it returns at
\* once when nothing is active, else one close_position call per active
\* position is started.
StopCloseAll(outcome) ==
    /\ spc = "ws_stop"
    /\ IF outcome = "raise"
       THEN spc' = "raised" /\ UNCHANGED stop_targets
       ELSE IF active_positions = {}
       THEN spc' = "returned" /\ UNCHANGED stop_targets
       ELSE spc' = "gather" /\ stop_targets' = active_positions
    /\ UNCHANGED <<running, coreVars, shutdownOthers>>

\* One of the gathered close_position calls starts.
StopCloseCall(p) ==
    /\ spc = "gather"
    /\ p \in stop_targets
    /\ CloseCall(p, p)

\* asyncio.gather has every result: stop returns (bot.py:320, 124).
StopReturn ==
    /\ spc = "gather"
    /\ \A p \in stop_targets : cpc[p] = "done"
    /\ spc' = "returned"
    /\ UNCHANGED <<running, stop_targets, coreVars, shutdownOthers>>

\* ------------------------------------------- OrderManager._monitor_order
\* The monitor task place_order creates for the order it placed
\* (order_manager.py:83, 183-186).
MonitorBegin(o) ==
    /\ mpc = "idle"
    /\ o \in active_orders
    /\ mpc' = "sleep"
    /\ morder' = o.id
    /\ attempt' = 0
    /\ mpolls' = 0
    /\ UNCHANGED <<coreVars, monitorOthers>>

\* What one round of the loop can meet: get_order_status returns None (the
\* venue query failed, order_manager.py:150-152), the round raises, or the
\* venue reports the order in some status.
PollAnswers == {"none", "raise"} \cup OrderStatus
TerminalStatuses == {"FILLED", "CANCELLED", "REJECTED"}

\* get_order_status (order_manager.py:135-152): the cached order is replaced.
CacheStatus(orders, id, st) ==
    {IF o.id = id THEN [o EXCEPT !.order.status = st] ELSE o : o \in orders}

\* One round of the loop of _monitor_order (order_manager.py:188-212) and
\* the loop test that follows it.
MonitorPoll(ans) ==
    /\ mpc = "sleep"
    /\ mpolls < max_attempts + MaxExtraPolls
    /\ mpolls' = mpolls + 1
    /\ IF ans = "none"
       THEN UNCHANGED <<mpc, attempt, active_orders>>
       ELSE IF ans = "raise"
       THEN /\ attempt' = attempt + 1
            /\ mpc' = IF attempt + 1 < max_attempts THEN "sleep" ELSE "done"
            /\ UNCHANGED active_orders
       ELSE IF ans \in TerminalStatuses
       THEN /\ active_orders' = {o \in active_orders : o.id # morder}
            /\ mpc' = "done"
            /\ UNCHANGED attempt
       ELSE /\ active_orders' = CacheStatus(active_orders, morder, ans)
            /\ attempt' = attempt + 1
            /\ mpc' = IF attempt + 1 < max_attempts THEN "sleep" ELSE "done"
    /\ UNCHANGED <<morder, venue_submitted, posVars, handlerVars, closerVars, riskVars,
                   gate_accepted, now, detectorVars, monitorOthers>>

\* update_price as called from a venue's reader task, one call at a time per
\* venue and concurrently across venues: the cache write, check_arbitrage (which never
\* suspends) and the first await callback(opportunity) run without a
\* suspension in between; the callback suspends at its first venue request.
Deliver(k, pending, arrival) ==
    IF pending = <<>>
    THEN /\ upc' = [upc EXCEPT ![k] = "idle"]
         /\ opportunities' = [opportunities EXCEPT ![k] = <<>>]
         /\ delivered' = delivered
    ELSE /\ upc' = [upc EXCEPT ![k] = "in_callback"]
         /\ opportunities' = [opportunities EXCEPT ![k] = Tail(pending)]
         /\ delivered' = Append(delivered, arrival)

UpdatePriceCall(symbol, exchange, ticker) ==
    /\ upc[exchange] = "idle"
    /\ arrivals < MaxArrivals
    /\ LET prices == CachePut(price_cache[symbol], exchange, ticker)
           found == check_arbitrage(prices, symbol, opportunity_counter)
       IN  /\ price_cache' = [price_cache EXCEPT ![symbol] = prices]
           /\ emitted' = found[1]
           /\ opportunity_counter' = found[2]
           /\ arrivals' = arrivals + 1
           /\ trigger' = [trigger EXCEPT ![exchange] = arrivals + 1]
           /\ Deliver(exchange, found[1], arrivals + 1)
    /\ UNCHANGED <<posVars, handlerVars, closerVars, riskVars, gate_accepted, now,
                   orderVars, min_spread_threshold, min_profit_threshold, deliveryOthers>>

\* The awaited callback returns: the loop hands over the next opportunity.
CallbackReturns(k) ==
    /\ upc[k] = "in_callback"
    /\ Deliver(k, opportunities[k], trigger[k])
    /\ UNCHANGED <<trigger, arrivals, coreVars, deliveryOthers>>

\* PriceLogger.price_callback: put_nowait either appends or raises QueueFull;
\* the handler of QueueFull logs the warning when the last one is more than
\* the interval old. The statistics counters are not part of the model.
put_nowait_unbounded(queue, item) == [QueueFull |-> FALSE, queue |-> Append(queue, item)]

put_nowait(queue, item) ==
    IF Len(queue) >= MaxQueue THEN [QueueFull |-> TRUE, queue |-> queue]
    ELSE [QueueFull |-> FALSE, queue |-> Append(queue, item)]

price_callback(exchange_name, ticker) ==
    LET item == <<exchange_name, ticker>>
        put == put_nowait(price_queue, item)
    IN  /\ IF put.QueueFull
           THEN /\ price_queue' = price_queue
                /\ IF clock - last_queue_full_warning > queue_full_warning_interval
                   THEN /\ warnings' = Append(warnings, clock)
                        /\ last_queue_full_warning' = clock
                   ELSE UNCHANGED <<warnings, last_queue_full_warning>>
           ELSE /\ price_queue' = put.queue
                /\ UNCHANGED <<warnings, last_queue_full_warning>>
        /\ last_call' = [outcome |-> IF put.QueueFull THEN "dropped" ELSE "queued",
                         quote |-> item, before |-> price_queue, after |-> price_queue']
        /\ UNCHANGED <<clock, coreVars, recorderOthers>>

\* PriceLogger._price_consumer takes the oldest entry.
PriceConsumerGet ==
    /\ price_queue # <<>>
    /\ price_queue' = Tail(price_queue)
    /\ UNCHANGED <<last_queue_full_warning, clock, warnings, last_call, coreVars,
                   recorderOthers>>

ClockSecond ==
    /\ clock < queue_full_warning_interval + 1 + MaxClockTicks
    /\ clock' = clock + 1
    /\ UNCHANGED <<price_queue, last_queue_full_warning, warnings, last_call, coreVars,
                   recorderOthers>>

\* ------------------------------------------------------- venue adapters
\* What a parser returns: None, or the Ticker it built.
None(why) == [outcome |-> why, bid |-> 0, ask |-> 0, timestamp |-> NoTime]
Quote(bid, ask, timestamp) == [outcome |-> "emitted", bid |-> bid, ask |-> ask, timestamp |-> timestamp]

\* data.get("ts", datetime.now().timestamp() * 1000)
FrameTs(data) == IF data.ts = NoTime THEN wall ELSE data.ts

\* The rate limit of the Bitget parsers: the stream has passed a quote on and
\* this frame is less than the gap after it.
rate_limited(times, symbol, now_, gap) == times[symbol] # NoTime /\ now_ - times[symbol] < gap

bitget_parse_ticker_data(symbol, data) ==
    IF data.last <= 0 THEN None("invalid")
    ELSE IF data.bid > data.ask /\ data.ask > 0 THEN None("invalid")
    ELSE IF rate_limited(_last_ticker_times, symbol, FrameTs(data), ticker_gap) THEN None("throttled")
    ELSE Quote(data.bid * PriceQuantum, data.ask * PriceQuantum, FrameTs(data))

bitget_parse_orderbook_data(symbol, data) ==
    IF data.bid > data.ask /\ data.ask > 0 THEN None("invalid")
    ELSE IF rate_limited(_last_orderbook_times, symbol, FrameTs(data), orderbook_gap) THEN None("throttled")
    ELSE Quote(data.bid * PriceQuantum, data.ask * PriceQuantum, FrameTs(data))

bitget_parse_trade_data(symbol, data) ==
    IF data.last <= 0 THEN None("invalid")
    ELSE IF rate_limited(_last_trade_times, symbol, FrameTs(data), trade_gap) THEN None("throttled")
    ELSE Quote(data.last * (PriceQuantum - 1), data.last * (PriceQuantum + 1), FrameTs(data))

bybit_parse_ticker_data(symbol, data) ==
    IF data.bid <= 0 \/ data.ask <= 0 \/ data.last <= 0 THEN None("invalid")
    ELSE Quote(data.bid * PriceQuantum, data.ask * PriceQuantum, wall)

bybit_parse_orderbook_data(symbol, data) ==
    Quote(data.bid * PriceQuantum, data.ask * PriceQuantum, FrameTs(data))

bybit_parse_trade_data(symbol, data) ==
    IF data.last <= 0 THEN None("invalid")
    ELSE Quote(data.last * (PriceQuantum - 2), data.last * (PriceQuantum + 2), FrameTs(data))

\* _process_message after the parser: a Ticker goes to the price callbacks.
PassOn(venue, kind, data, ticker) ==
    /\ last_event' = [venue |-> venue, kind |-> kind, outcome |-> ticker.outcome,
                      bid |-> ticker.bid, ask |-> ticker.ask,
                      timestamp |-> IF ticker.outcome = "emitted" THEN ticker.timestamp
                                    ELSE IF kind = "ticker" /\ venue = "bybit" THEN wall
                                    ELSE FrameTs(data),
                      first |-> stream_last[venue][kind] = NoTime,
                      since |-> IF stream_last[venue][kind] = NoTime THEN 0
                                ELSE (IF ticker.outcome = "emitted" THEN ticker.timestamp
                                      ELSE IF kind = "ticker" /\ venue = "bybit" THEN wall
                                      ELSE FrameTs(data)) - stream_last[venue][kind]]
    /\ stream_last' = IF ticker.outcome = "emitted"
                      THEN [stream_last EXCEPT ![venue][kind] = ticker.timestamp]
                      ELSE stream_last

Stamp(times, symbol, ticker) ==
    IF ticker.outcome = "emitted" THEN [times EXCEPT ![symbol] = ticker.timestamp] ELSE times

BitgetTicker(symbol, data) ==
    LET ticker == bitget_parse_ticker_data(symbol, data)
    IN  /\ _last_ticker_times' = Stamp(_last_ticker_times, symbol, ticker)
        /\ PassOn("bitget", "ticker", data, ticker)
        /\ UNCHANGED <<wall, _last_orderbook_times, _last_trade_times, coreVars, adapterOthers>>

BitgetBooks(symbol, data) ==
    LET ticker == bitget_parse_orderbook_data(symbol, data)
    IN  /\ _last_orderbook_times' = Stamp(_last_orderbook_times, symbol, ticker)
        /\ PassOn("bitget", "books", data, ticker)
        /\ UNCHANGED <<wall, _last_ticker_times, _last_trade_times, coreVars, adapterOthers>>

BitgetTrade(symbol, data) ==
    LET ticker == bitget_parse_trade_data(symbol, data)
    IN  /\ _last_trade_times' = Stamp(_last_trade_times, symbol, ticker)
        /\ PassOn("bitget", "trade", data, ticker)
        /\ UNCHANGED <<wall, _last_ticker_times, _last_orderbook_times, coreVars, adapterOthers>>

BybitTicker(symbol, data) ==
    /\ PassOn("bybit", "ticker", data, bybit_parse_ticker_data(symbol, data))
    /\ UNCHANGED <<wall, _last_ticker_times, _last_orderbook_times, _last_trade_times,
                   coreVars, adapterOthers>>

BybitBooks(symbol, data) ==
    /\ PassOn("bybit", "books", data, bybit_parse_orderbook_data(symbol, data))
    /\ UNCHANGED <<wall, _last_ticker_times, _last_orderbook_times, _last_trade_times,
                   coreVars, adapterOthers>>

BybitTrade(symbol, data) ==
    /\ PassOn("bybit", "trade", data, bybit_parse_trade_data(symbol, data))
    /\ UNCHANGED <<wall, _last_ticker_times, _last_orderbook_times, _last_trade_times,
                   coreVars, adapterOthers>>

WallTick ==
    /\ wall < MaxWall
    /\ wall' = wall + 1
    /\ UNCHANGED <<_last_ticker_times, _last_orderbook_times, _last_trade_times,
                   stream_last, last_event, coreVars, adapterOthers>>

\* ------------------------------------------- connection supervisor
\* The venue whose adapter the supervisor model follows.
SupervisedVenue == "A"
ConnectOutcomes == {"ok", "raise"}

\* BybitExchange.disconnect_websocket, as the adapter state it leaves.
disconnect_websocket(adapter) ==
    [websocket |-> FALSE, is_ws_connected |-> FALSE, subscribed_symbols |-> {}]

\* BybitExchange.connect_websocket(symbols): an existing websocket is
\* disconnected first; then the connection is made and each of symbols is
\* subscribed (sent: those whose subscribe request the socket took), or
\* websockets.connect raises.
connect_websocket(adapter, symbols, outcome, sent) ==
    LET cleared == IF adapter.websocket THEN disconnect_websocket(adapter) ELSE adapter
    IN  IF outcome = "ok"
        THEN [websocket |-> TRUE, is_ws_connected |-> TRUE,
              subscribed_symbols |-> cleared.subscribed_symbols \cup (symbols \cap sent)]
        ELSE [cleared EXCEPT !.is_ws_connected = FALSE]

Adapter == [websocket |-> websocket, is_ws_connected |-> is_ws_connected, subscribed_symbols |-> subscribed_symbols]

SetAdapter(adapter) ==
    /\ websocket' = adapter.websocket
    /\ is_ws_connected' = adapter.is_ws_connected
    /\ subscribed_symbols' = adapter.subscribed_symbols

is_connected == is_ws_connected /\ websocket

add_exchange(symbols, outcome, sent) ==
    /\ connections = {}
    /\ SetAdapter(connect_websocket(Adapter, symbols, outcome, sent))
    /\ connections' = IF outcome = "ok" THEN {SupervisedVenue} ELSE connections
    /\ UNCHANGED <<attempts, subscribed_before_loss, restored, blockVars, coreVars,
                   reconnectOthers>>

\* _message_handler leaves its loop on ConnectionClosed.
TransportLoss ==
    /\ is_connected
    /\ is_ws_connected' = FALSE
    /\ restored' = FALSE
    /\ subscribed_before_loss' = subscribed_symbols
    /\ UNCHANGED <<connections, websocket, subscribed_symbols, attempts, blockVars,
                   coreVars, reconnectOthers>>

\* One round of _monitor_connection's loop, _handle_reconnection and the
\* subscribers of its broadcast included.
MonitorConnection(outcome) ==
    /\ SupervisedVenue \in connections
    /\ attempts <= max_reconnect_attempts
    /\ IF ~is_connected
       THEN /\ attempts' = attempts + 1
            /\ IF attempts >= max_reconnect_attempts
               THEN /\ ws_connected' = ws_connected \ {SupervisedVenue}
                    /\ block_exchange(SupervisedVenue, connection_block_minutes)
                    /\ UNCHANGED <<websocket, is_ws_connected, subscribed_symbols, restored>>
               ELSE /\ SetAdapter(connect_websocket(Adapter, {}, outcome, {}))
                    /\ restored' = (outcome = "ok")
                    /\ ws_connected' = IF outcome = "ok" THEN ws_connected \cup {SupervisedVenue}
                                       ELSE ws_connected
                    /\ UNCHANGED <<blocked_symbols, blocked_exchanges, block_expiry>>
       ELSE /\ attempts' = 0
            /\ UNCHANGED <<websocket, is_ws_connected, subscribed_symbols, restored, blockVars>>
    /\ UNCHANGED <<connections, subscribed_before_loss, coreVars, reconnectOthers>>

\* ------------------------------------------------- slippage estimators
\* The level walk both estimators share: <<total_cost, remaining>>.
RECURSIVE WalkBook(_, _, _)
WalkBook(levels, remaining, total_cost) ==
    IF levels = <<>> \/ remaining <= 0 THEN <<total_cost, remaining>>
    ELSE LET fill_size == Min(remaining, Head(levels)[2])
         IN  WalkBook(Tail(levels), remaining - fill_size,
                      total_cost + Head(levels)[1] * fill_size)

Abs(x) == IF x < 0 THEN -x ELSE x

\* abs(avg_price - best_price) / best_price * 100 with avg_price =
\* total_cost / quantity, as one fraction.
SlippagePct(total_cost, quantity, best_price) ==
    [outcome |-> "value", num |-> Abs(total_cost - best_price * quantity) * 100,
     den |-> quantity * best_price]

Sentinel == [outcome |-> "value", num |-> infeasible_slippage, den |-> 1]

\* ArbitrageDetector._calculate_default_slippage.
_calculate_default_slippage(levels, quantity) ==
    IF levels = <<>> THEN Sentinel
    ELSE LET walk == WalkBook(levels, quantity, 0)
         IN  IF walk[2] > 0 THEN Sentinel
             ELSE SlippagePct(walk[1], quantity, levels[1][1])

\* ExchangeInterface.calculate_slippage: the slippage rate it returns, or the
\* exception it raises.
calculate_slippage(levels, quantity) ==
    LET walk == WalkBook(levels, quantity, 0)
    IN  IF walk[2] > 0 THEN [outcome |-> "ValueError", num |-> 0, den |-> 1]
        ELSE SlippagePct(walk[1], quantity, levels[1][1])

DefaultSlippage(levels, quantity) ==
    /\ estimator' = "_calculate_default_slippage"
    /\ book' = levels
    /\ requested' = quantity
    /\ slippage' = _calculate_default_slippage(levels, quantity)
    /\ UNCHANGED <<coreVars, slippageOthers>>

InterfaceSlippage(levels, quantity) ==
    /\ estimator' = "calculate_slippage"
    /\ book' = levels
    /\ requested' = quantity
    /\ slippage' = calculate_slippage(levels, quantity)
    /\ UNCHANGED <<coreVars, slippageOthers>>

\* --------------------------------------------------- position monitor
EntryShortPrice == EntryLongPrice + 10
MonitoredSize == 1

\* PriceAggregator._handle_ticker_update: the cache write; the update
\* callbacks it then awaits lead to update_price, which leaves this cache alone.
AggregatorCachePut(exchange, ticker) ==
    /\ aggregator_cache' = [aggregator_cache EXCEPT ![exchange] = ticker]
    /\ UNCHANGED <<monitored, overdue, selection, coreVars, convergenceOthers>>

\* open_position succeeded: the position is OPEN and opened_at is set.
MonitoredOpens ==
    /\ monitored.status = "OPENING"
    /\ monitored' = [monitored EXCEPT !.status = "OPEN"]
    /\ UNCHANGED <<aggregator_cache, overdue, selection, coreVars, convergenceOthers>>

\* More than 24 hours pass since opened_at.
DayPasses ==
    /\ monitored.status = "OPEN"
    /\ ~overdue
    /\ overdue' = TRUE
    /\ UNCHANGED <<monitored, aggregator_cache, selection, coreVars, convergenceOthers>>

\* RiskManager.check_stop_loss; max_position_duration is 24 hours.
check_stop_loss(position, late) ==
    /\ position.status = "OPEN"
    /\ \/ /\ position.unrealized_pnl < 0
          /\ Abs(position.unrealized_pnl) * 100 * 100 >=
                 stop_loss_percentage * (MonitoredSize * EntryLongPrice)
       \/ late

\* PositionManager.should_close_position, the spread given as the fraction
\* spread / ask of a percentage in hundredths.
should_close_position(position, spread, ask, late) ==
    /\ position.status = "OPEN"
    /\ \/ Abs(spread) * 100 * 100 <= exit_spread_target * ask
       \/ late
       \/ position.unrealized_pnl * 10 < -MonitoredSize

\* One round of _monitor_positions for the position; a close_position call
\* is followed up to its first suspension, where the position is CLOSING.
\* Both orders are on the position once it is OPEN.
_monitor_positions ==
    LET long_price == aggregator_cache[LongVenue]
        short_price == aggregator_cache[ShortVenue]
        spread == short_price.bid - long_price.ask
        pnl == (long_price.mark_price - EntryLongPrice) * MonitoredSize
                   + (EntryShortPrice - short_price.mark_price) * MonitoredSize
        updated == IF monitored.status = "OPEN"
                   THEN [monitored EXCEPT !.unrealized_pnl = pnl] ELSE monitored
        reason == IF check_stop_loss(updated, overdue) THEN "stop_loss"
                  ELSE IF should_close_position(updated, spread, long_price.ask, overdue)
                       THEN "spread_convergence" ELSE "kept"
    IN  /\ monitored.status \in {"OPENING", "OPEN"}
        /\ IF long_price = NoTicker \/ short_price = NoTicker
           THEN /\ selection' = [reason |-> "skipped", status |-> monitored.status,
                                 spread |-> 0, ask |-> 1]
                /\ monitored' = monitored
           ELSE /\ selection' = [reason |-> reason, status |-> monitored.status,
                                 spread |-> spread, ask |-> long_price.ask]
                /\ monitored' = IF reason = "kept" THEN updated
                                ELSE [updated EXCEPT !.status = "CLOSING"]
        /\ UNCHANGED <<aggregator_cache, overdue, coreVars, convergenceOthers>>

\* ------------------------------------------ ArbitrageBot._periodic_tasks
SecondsPerDay == 24 * 3600

\* The instants the run is followed to: MaxDays days after the first midnight.
Horizon == (MaxDays + 1) * SecondsPerDay

\* now.hour == 0 and now.minute < 5 of a naive datetime.now() (bot.py:340-341):
\* the host's local time of day lies in the first five minutes.
in_reset_window(local) == (local % SecondsPerDay) < 5 * 60

\* _check_daily_reset (bot.py:338-342), run at the UTC instant `at`.
_check_daily_reset(at) ==
    IF in_reset_window(at + utc_offset)
    THEN reset_runs' = [reset_runs EXCEPT ![at \div SecondsPerDay] = @ + 1]
    ELSE UNCHANGED reset_runs

\* How long before the first UTC midnight the bot is started, and the zones
\* of the host: UTC, or nine hours ahead of it.
StartLeads == {periodic_sleep, periodic_sleep + 1, 2 * periodic_sleep - 1}
UtcOffsets == {0, 9 * 3600}

\* start() creates the _periodic_tasks task, which goes to sleep (bot.py:142-147).
StartPeriodicTasks(lead, zone) ==
    /\ periodic = "stopped"
    /\ periodic' = "sleeping"
    /\ utc_now' = SecondsPerDay - lead
    /\ utc_offset' = zone
    /\ UNCHANGED <<reset_runs, coreVars, dailyOthers>>

\* One round of _periodic_tasks (bot.py:144-156): asyncio.sleep(300) returns
\* no earlier than 300 s later, _log_statistics runs, and _check_daily_reset
\* reads the clock; `overrun` is what the round takes beyond the 300 s.
_periodic_tasks(overrun) ==
    /\ periodic = "sleeping"
    /\ utc_now < Horizon
    /\ utc_now' = utc_now + periodic_sleep + overrun
    /\ _check_daily_reset(utc_now')
    /\ UNCHANGED <<periodic, utc_offset, coreVars, dailyOthers>>

NextDaily ==
    \/ \E lead \in StartLeads, zone \in UtcOffsets : StartPeriodicTasks(lead, zone)
    \/ \E overrun \in 0..MaxOverrun : _periodic_tasks(overrun)

\* ---------------------------------------------- PriceLogger, delta recording
\* abs(float(new) - float(last)) / float(last) > threshold in doubles
\* (price_logger.py:343-346).  The quotient is the exact ratio rounded: where
\* the exact ratio equals the threshold the comparison follows the sign of
\* the rounding error.
exceeds_threshold(new, last, rounding) ==
    LET change == Abs(new - last) * price_change_threshold_inverse
    IN  change > last \/ (change = last /\ rounding > 0)

\* _has_price_changed (price_logger.py:323-348); a bid or ask of NoPrice is None.
price_changed(last_ticker, ticker, rounding) ==
    IF last_ticker = NoQuote THEN TRUE
    ELSE IF ticker.bid = NoPrice \/ ticker.ask = NoPrice THEN TRUE
    ELSE IF last_ticker.bid = NoPrice \/ last_ticker.ask = NoPrice THEN TRUE
    ELSE \/ exceeds_threshold(ticker.bid, last_ticker.bid, rounding)
         \/ exceeds_threshold(ticker.ask, last_ticker.ask, rounding)

\* _has_price_changed on the logger's own last_saved_prices.
_has_price_changed(exchange, ticker, rounding) ==
    price_changed(last_saved_prices[exchange], ticker, rounding)

\* The quotes of the recorded symbol: each side missing, or near BasePrice
\* in steps of the threshold's own size.
DeltaPrices == {NoPrice} \cup (BasePrice..(BasePrice + MaxDelta))
DeltaTickers == [bid : DeltaPrices, ask : DeltaPrices]
Roundings == {-1, 0, 1}

\* _price_consumer stores a quote as the newest of its venue
\* (price_logger.py:296-300).
latest_prices_put(exchange, ticker) ==
    /\ latest_prices' = [latest_prices EXCEPT ![exchange] = ticker]
    /\ UNCHANGED <<last_saved_prices, last_round, coreVars, deltaOthers>>

\* One round of _save_prices_periodically (price_logger.py:354-395): every
\* newest quote that _has_price_changed accepts becomes a CSV row and the
\* last recorded quote of its venue; in a second divisible by 300 the
\* newest quotes are then dropped.
_save_prices_periodically(rounding, cleanup) ==
    LET present == {v \in DeltaVenues : latest_prices[v] # NoQuote}
        csv_items == {v \in present : _has_price_changed(v, latest_prices[v], rounding)}
    IN  /\ present # {}
        /\ last_saved_prices' = [v \in DeltaVenues |->
               IF v \in csv_items THEN latest_prices[v] ELSE last_saved_prices[v]]
        /\ last_round' = [latest |-> latest_prices, saved |-> last_saved_prices,
                          csv_items |-> csv_items]
        /\ latest_prices' = IF cleanup THEN [v \in DeltaVenues |-> NoQuote]
                            ELSE latest_prices
        /\ UNCHANGED <<coreVars, deltaOthers>>

\* _init_csv_writers on a new UTC date forgets the recorded quotes
\* (price_logger.py:198-204).
_init_csv_writers ==
    /\ last_saved_prices' = [v \in DeltaVenues |-> NoQuote]
    /\ UNCHANGED <<latest_prices, last_round, coreVars, deltaOthers>>

NextDelta ==
    \/ \E v \in DeltaVenues, ticker \in DeltaTickers : latest_prices_put(v, ticker)
    \/ \E rounding \in Roundings, cleanup \in BOOLEAN :
           _save_prices_periodically(rounding, cleanup)
    \/ _init_csv_writers

\* ------------------------------------ delta recording, then the backtest
\* The quotes of the replayed stream: venue A offers at BasePrice, venue B
\* bids around the price that makes the spread the default threshold.
ThresholdBid == BasePrice + (BasePrice * default_min_spread_threshold) \div (100 * 100)
ReplayQuotes ==
    [exchange : {"A"}, bid : {BasePrice - 100}, ask : {BasePrice, BasePrice + MaxDelta}]
        \cup [exchange : {"B"}, bid : {ThresholdBid - 1, ThresholdBid, ThresholdBid + MaxDelta},
              ask : {ThresholdBid + 100}]

\* csv_row_to_ticker: the row's bid and ask; the volume the logger wrote is
\* not looked at here.
AsTicker(quote) == [bid |-> quote.bid, ask |-> quote.ask, volume_24h |-> NoVolume]

\* The directions of the opportunities check_arbitrage returns, in its order.
Directions(found) ==
    [i \in DOMAIN found |-> <<found[i].buy_exchange, found[i].sell_exchange>>]

\* A history of decisions with a decision equal to the one before it dropped.
Decided(decisions, directions) ==
    IF decisions # <<>> /\ decisions[Len(decisions)] = directions THEN decisions
    ELSE Append(decisions, directions)

\* One quote of the stream.  The backtest on the full stream feeds it to its
\* detector and checks (backtest_engine.py:248-256); the logger records it
\* if _has_price_changed says so (price_logger.py:364-377), and only then
\* does the backtest on the recorded stream see it.
ReplayQuote(quote, rounding) ==
    /\ streamed < MaxStream
    /\ streamed' = streamed + 1
    /\ LET prices == CachePut(full_cache, quote.exchange, AsTicker(quote))
       IN  /\ full_cache' = prices
           /\ full_decisions' = Decided(full_decisions,
                                        Directions(check_arbitrage(prices, "BTC", 0)[1]))
    /\ IF price_changed(recorded[quote.exchange], [bid |-> quote.bid, ask |-> quote.ask],
                        rounding)
       THEN LET prices == CachePut(delta_cache, quote.exchange, AsTicker(quote))
            IN  /\ recorded' = [recorded EXCEPT ![quote.exchange] =
                                    [bid |-> quote.bid, ask |-> quote.ask]]
                /\ delta_cache' = prices
                /\ delta_decisions' = Decided(delta_decisions,
                                              Directions(check_arbitrage(prices, "BTC", 0)[1]))
       ELSE UNCHANGED <<recorded, delta_cache, delta_decisions>>
    /\ UNCHANGED <<coreVars, replayOthers>>

NextReplay == \E quote \in ReplayQuotes, rounding \in Roundings : ReplayQuote(quote, rounding)

\* ------------------------------------------------------------ BacktestEngine
\* Floats that come from the quotes are exact fractions in lowest terms.
RECURSIVE Gcd(_, _)
Gcd(a, b) == IF b = 0 THEN a ELSE Gcd(b, a % b)
Norm(f) == LET g == Gcd(Abs(f.num), f.den) IN Frac(f.num \div g, f.den \div g)
FracAdd(f, g) == Norm(Frac(f.num * g.den + g.num * f.den, f.den * g.den))
FracSub(f, g) == Norm(Frac(f.num * g.den - g.num * f.den, f.den * g.den))
FracTimes(f, k) == Norm(Frac(f.num * k, f.den))
FracQuot(f, g) == Norm(Frac(f.num * g.den, f.den * g.num))
FracAbs(f) == Frac(Abs(f.num), f.den)
FracLeq(f, g) == f.num * g.den <= g.num * f.den

\* exit_threshold: float = 0.1 (backtest_engine.py:207), in percent.
exit_threshold == Frac(1, 10)

\* symbol_prices.get(exchange): the cached ticker, or NoCached for None.
NoCached == [bid |-> NoPrice, ask |-> NoPrice, volume_24h |-> NoVolume]
CacheGet(prices, exchange) ==
    IF \E i \in DOMAIN prices : prices[i].exchange = exchange
    THEN prices[CHOOSE i \in DOMAIN prices : prices[i].exchange = exchange].ticker
    ELSE NoCached

\* price * (1 + slippage) and price * (1 - slippage).
SlippedUp(price) ==
    Norm(Frac(price * (slippage_rate.den + slippage_rate.num), slippage_rate.den))
SlippedDown(price) ==
    Norm(Frac(price * (slippage_rate.den - slippage_rate.num), slippage_rate.den))

\* _try_enter_position without its test for a position already open.
_try_enter_position_unguarded(ledger, opp, prices) ==
    LET buy_exchange_ticker == CacheGet(prices, opp.buy_exchange)
        sell_exchange_ticker == CacheGet(prices, opp.sell_exchange)
        entry_spread == Norm(Frac(opp.spread_percentage.num, opp.spread_percentage.den * 100))
    IN  IF buy_exchange_ticker = NoCached \/ sell_exchange_ticker = NoCached THEN ledger
        ELSE [open_positions |-> Append(ledger.open_positions,
                  [symbol |-> opp.symbol, entry_spread |-> entry_spread,
                   buy_exchange |-> opp.buy_exchange, sell_exchange |-> opp.sell_exchange,
                   entry_buy_price |-> SlippedUp(buy_exchange_ticker.ask),
                   entry_sell_price |-> SlippedDown(sell_exchange_ticker.bid),
                   opportunity_id |-> opp.id, max_adverse_spread |-> entry_spread]),
              entered |-> ledger.entered + 1]

\* _try_enter_position (backtest_engine.py:271-308) on `ledger`, the open
\* positions and the count of entries; the opportunity's spread_percentage is
\* in hundredths of a percent, the position's entry_spread in percent.
_try_enter_position(ledger, opp, prices) ==
    IF \E i \in DOMAIN ledger.open_positions : ledger.open_positions[i].symbol = opp.symbol
    THEN ledger
    ELSE LET buy_exchange_ticker == CacheGet(prices, opp.buy_exchange)
             sell_exchange_ticker == CacheGet(prices, opp.sell_exchange)
             entry_spread == Norm(Frac(opp.spread_percentage.num,
                                       opp.spread_percentage.den * 100))
         IN  IF buy_exchange_ticker = NoCached \/ sell_exchange_ticker = NoCached THEN ledger
             ELSE [open_positions |-> Append(ledger.open_positions,
                       [symbol |-> opp.symbol, entry_spread |-> entry_spread,
                        buy_exchange |-> opp.buy_exchange,
                        sell_exchange |-> opp.sell_exchange,
                        entry_buy_price |-> SlippedUp(buy_exchange_ticker.ask),
                        entry_sell_price |-> SlippedDown(sell_exchange_ticker.bid),
                        opportunity_id |-> opp.id, max_adverse_spread |-> entry_spread]),
                   entered |-> ledger.entered + 1]

\* for opp in opportunities: await self._try_enter_position(opp, ...)
\* (backtest_engine.py:258-260).
RECURSIVE EnterEach(_, _, _)
EnterEach(ledger, found, prices) ==
    IF found = <<>> THEN ledger
    ELSE EnterEach(_try_enter_position(ledger, Head(found), prices), Tail(found), prices)

\* _compute_current_spread (backtest_engine.py:333-350), in percent: known
\* is FALSE for None.
_compute_current_spread(prices, buy_exchange, sell_exchange) ==
    LET buy_ticker == CacheGet(prices, buy_exchange)
        sell_ticker == CacheGet(prices, sell_exchange)
    IN  IF buy_ticker = NoCached \/ sell_ticker = NoCached
        THEN [known |-> FALSE, spread |-> Frac(0, 1)]
        ELSE [known |-> TRUE,
              spread |-> Norm(Frac((sell_ticker.bid - buy_ticker.ask) * 100, buy_ticker.ask))]

\* _close_position (backtest_engine.py:352-424): the trade it appends.
_close_position(position, exit_spread, prices) ==
    LET buy_exchange_ticker == CacheGet(prices, position.buy_exchange)
        sell_exchange_ticker == CacheGet(prices, position.sell_exchange)
        missing == buy_exchange_ticker = NoCached \/ sell_exchange_ticker = NoCached
        exit_buy_price == IF missing THEN position.entry_buy_price
                          ELSE SlippedDown(buy_exchange_ticker.bid)
        exit_sell_price == IF missing THEN position.entry_sell_price
                           ELSE SlippedUp(sell_exchange_ticker.ask)
        long_pnl_pct == FracTimes(FracQuot(FracSub(exit_buy_price, position.entry_buy_price),
                                           position.entry_buy_price), 100)
        short_pnl_pct == FracTimes(FracQuot(FracSub(position.entry_sell_price, exit_sell_price),
                                            position.entry_sell_price), 100)
        gross_profit_pct == FracAdd(long_pnl_pct, short_pnl_pct)
        total_fee_pct == FracTimes(fee_rate, 4 * 100)
    IN  [symbol |-> position.symbol, buy_exchange |-> position.buy_exchange,
         sell_exchange |-> position.sell_exchange,
         entry_spread |-> position.entry_spread, exit_spread |-> exit_spread,
         max_adverse_spread |-> position.max_adverse_spread,
         long_pnl_pct |-> long_pnl_pct, short_pnl_pct |-> short_pnl_pct,
         gross_profit_pct |-> gross_profit_pct, net_profit_pct |-> FracSub(gross_profit_pct, total_fee_pct),
         total_fee_pct |-> total_fee_pct, opportunity_id |-> position.opportunity_id]

\* The position of `symbol` with its max_adverse_spread brought up to the
\* current spread (backtest_engine.py:326-327).
Tracked(position, current_spread) ==
    IF FracLeq(FracAbs(current_spread), FracAbs(position.max_adverse_spread)) THEN position
    ELSE [position EXCEPT !.max_adverse_spread = current_spread]

\* The rows of the log: venue, symbol and quote; a bid of NoPrice is a row
\* whose bid is NaN.
BacktestVenues == {"A", "B"}
BacktestPrices == {100, 110}
BacktestQuotes ==
    {q \in [bid : BacktestPrices \cup {NoPrice}, ask : BacktestPrices] :
        q.bid <= q.ask /\ (q.bid = NoPrice => q.ask = 100)}
FeeRates == {Frac(0, 1), Frac(1, 1000)}
SlippageRates == {Frac(0, 1), Frac(1, 10)}

\* BacktestEngine.__init__ (backtest_engine.py:204-223) and the call of
\* run_backtest.
BacktestStart(fee, slip) ==
    /\ backtest = "none"
    /\ backtest' = "running"
    /\ fee_rate' = fee
    /\ slippage_rate' = slip
    /\ UNCHANGED <<open_positions, closed_trades, entered, rows, coreVars, backtestOthers>>

\* One row of run_backtest (backtest_engine.py:236-263): a row without bid or
\* ask is skipped; otherwise update_price, which checks and notifies on its
\* own, then check_arbitrage, the entries and _check_exit_positions
\* (backtest_engine.py:310-331).
run_backtest_row(symbol, exchange, quote) ==
    /\ backtest = "running"
    /\ rows < MaxRows
    /\ rows' = rows + 1
    /\ IF quote.bid = NoPrice \/ quote.ask = NoPrice
       THEN UNCHANGED <<price_cache, emitted, opportunity_counter, open_positions,
                        closed_trades, entered>>
       ELSE LET prices == CachePut(price_cache[symbol], exchange, AsTicker(quote))
                notified == check_arbitrage(prices, symbol, opportunity_counter)
                found == check_arbitrage(prices, symbol, notified[2])
                ledger == EnterEach([open_positions |-> open_positions, entered |-> entered],
                                  found[1], prices)
                held == {i \in DOMAIN ledger.open_positions :
                            ledger.open_positions[i].symbol = symbol}
            IN  /\ price_cache' = [price_cache EXCEPT ![symbol] = prices]
                /\ emitted' = notified[1]
                /\ opportunity_counter' = found[2]
                /\ entered' = ledger.entered
                /\ IF held = {}
                   THEN /\ open_positions' = ledger.open_positions
                        /\ UNCHANGED closed_trades
                   ELSE LET at == CHOOSE i \in held : TRUE
                            position == ledger.open_positions[at]
                            current == _compute_current_spread(prices, position.buy_exchange,
                                                               position.sell_exchange)
                            tracked == Tracked(position, current.spread)
                        IN  IF ~current.known
                            THEN /\ open_positions' = ledger.open_positions
                                 /\ UNCHANGED closed_trades
                            ELSE IF FracLeq(FracAbs(current.spread), exit_threshold)
                            THEN /\ closed_trades' = Append(closed_trades,
                                        _close_position(tracked, current.spread, prices))
                                 /\ open_positions' = SelectSeq(ledger.open_positions,
                                        LAMBDA p : p.symbol # symbol)
                            ELSE /\ open_positions' = [ledger.open_positions EXCEPT ![at] = tracked]
                                 /\ UNCHANGED closed_trades
    /\ UNCHANGED <<backtest, fee_rate, slippage_rate, posVars, handlerVars, closerVars,
                   riskVars, gate_accepted, now, orderVars, min_spread_threshold,
                   min_profit_threshold, backtestOthers>>

\* The trade of a forced close (backtest_engine.py:430-442): at the current
\* spread, or at 0.0 where there is none.
ForcedTrade(position) ==
    LET current == _compute_current_spread(price_cache[position.symbol],
                                           position.buy_exchange, position.sell_exchange)
    IN  _close_position(position, IF current.known THEN current.spread ELSE Frac(0, 1),
                        price_cache[position.symbol])

\* The end of run_backtest (backtest_engine.py:265-269): df.iloc[-1] raises
\* on a log without rows; otherwise _force_close_all_positions
\* (backtest_engine.py:426-442) and the return.
run_backtest_return ==
    /\ backtest = "running"
    /\ IF rows = 0
       THEN /\ backtest' = "raised"
            /\ UNCHANGED <<open_positions, closed_trades>>
       ELSE /\ backtest' = "returned"
            /\ closed_trades' = closed_trades \o
                   [i \in DOMAIN open_positions |-> ForcedTrade(open_positions[i])]
            /\ open_positions' = <<>>
    /\ UNCHANGED <<fee_rate, slippage_rate, entered, rows, coreVars, backtestOthers>>

NextBacktest ==
    \/ \E fee \in FeeRates, slip \in SlippageRates : BacktestStart(fee, slip)
    \/ \E symbol \in Symbols, exchange \in BacktestVenues, quote \in BacktestQuotes :
           run_backtest_row(symbol, exchange, quote)
    \/ run_backtest_return

\* ------------------------------------------------- the bot's quote wiring
\* WebSocketManager.broadcast(event_type, data): the callables it runs.
broadcast(event_type) == subscribers[event_type]

\* The supervised adapter parses a frame of a subscribed symbol into a ticker
\* and runs `for callback in self.price_callbacks: await callback(self.name,
\* ticker)`. ArbitrageBot.add_exchange hands the adapter to the order manager
\* and to the hub only; nothing of the bot calls add_price_callback, and no
\* call site passes "ticker_update" to broadcast.
AdapterEmit(ticker) ==
    /\ SupervisedVenue \in connections
    /\ is_connected
    /\ "BTC" \in subscribed_symbols
    /\ Len(quotes_emitted) < MaxEmitted
    /\ quotes_emitted' = Append(quotes_emitted, ticker)
    /\ price_callback_calls' = price_callback_calls + Cardinality(price_callbacks)
    /\ UNCHANGED <<price_callbacks, subscribers, update_callbacks, coreVars, wiringOthers>>

\* ------------------------------------ PriceLogger, the CSV queue and shutdown
\* The UTC day of a clock value, as strftime("%Y%m%d") tells days apart.
LogDay(at) == at \div TicksPerDay

\* The quotes of the CSV pipeline's symbol: two bids further apart than the
\* threshold, so every change of the quote is one _has_price_changed accepts.
CsvTickers == {t \in DeltaTickers : /\ t.ask = BasePrice + MaxDelta
                                    /\ t.bid \in {BasePrice, BasePrice + MaxDelta}}

\* csv_items of a round (price_logger.py:360-373), in the order of the
\* latest_prices dict, every row stamped with the round's timestamp.
RECURSIVE CsvItems(_, _)
CsvItems(venues, at) ==
    IF venues = {} THEN <<>>
    ELSE LET v == CHOOSE x \in venues : TRUE
         IN  <<[timestamp |-> at, exchange |-> v, ticker |-> latest_prices[v]]>>
                 \o CsvItems(venues \ {v}, at)

\* for item in csv_items: self.csv_queue.put_nowait(item), left at the first
\* QueueFull (price_logger.py:380-387): the queue afterwards and the rows it
\* accepted.
RECURSIVE put_each(_, _)
put_each(queue, items) ==
    IF items = <<>> THEN [queue |-> queue, accepted |-> <<>>]
    ELSE LET put == put_nowait(queue, Head(items))
         IN  IF put.QueueFull THEN [queue |-> queue, accepted |-> <<>>]
             ELSE LET rest == put_each(put.queue, Tail(items))
                  IN  [queue |-> rest.queue, accepted |-> <<Head(items)>> \o rest.accepted]

\* One round of _save_prices_periodically with its queue (price_logger.py:
\* 352-395): the timestamp is taken, every newest quote that
\* _has_price_changed accepts becomes a row and the slot's last_saved_prices
\* entry (lines 364-377), and only then are the rows put on csv_queue.
save_prices_round(rounding, cleanup) ==
    LET present == {v \in DeltaVenues : latest_prices[v] # NoQuote}
        changed == {v \in present : _has_price_changed(v, latest_prices[v], rounding)}
        put == put_each(csv_queue, CsvItems(changed, log_clock))
    IN  /\ ~shutdown_event
        /\ save_rounds < MaxSaveRounds
        /\ present # {}
        /\ save_rounds' = save_rounds + 1
        /\ last_saved_prices' = [v \in DeltaVenues |->
               IF v \in changed THEN latest_prices[v] ELSE last_saved_prices[v]]
        /\ last_round' = [latest |-> latest_prices, saved |-> last_saved_prices,
                          csv_items |-> changed]
        /\ csv_queue' = put.queue
        /\ last_enqueued' = [v \in DeltaVenues |->
               IF \E i \in DOMAIN put.accepted : put.accepted[i].exchange = v
               THEN latest_prices[v] ELSE last_enqueued[v]]
        /\ latest_prices' = IF cleanup THEN [v \in DeltaVenues |-> NoQuote]
                            ELSE latest_prices
        /\ UNCHANGED <<csv_batch, log_clock, current_date, csv_files, shutdown_event,
                       shutdown_at, csv_writer_task, cleaned_up, coreVars, csvDeltaOthers>>

\* _csv_writer_worker collecting its batch: one csv_queue.get() that returned
\* (price_logger.py:433-441).
WriterGet ==
    /\ csv_writer_task = "running"
    /\ csv_queue # <<>>
    /\ csv_batch' = Append(csv_batch, Head(csv_queue))
    /\ csv_queue' = Tail(csv_queue)
    /\ UNCHANGED <<log_clock, current_date, csv_files, shutdown_event, shutdown_at,
                   csv_writer_task, cleaned_up, save_rounds, last_enqueued, deltaVars,
                   coreVars, csvDeltaOthers>>

\* _csv_writer_worker writing its batch (price_logger.py:446-476):
\* _init_csv_writers takes the date of the moment of writing, on a changed
\* date closes the files and forgets last_saved_prices (lines 195-206), and
\* every row of the batch goes to the file of that date.
WriterWrite ==
    LET today == LogDay(log_clock)
    IN  /\ csv_writer_task = "running"
        /\ csv_batch # <<>>
        /\ last_saved_prices' =
               IF current_date # NoTime /\ current_date # today
               THEN [v \in DeltaVenues |-> NoQuote] ELSE last_saved_prices
        /\ current_date' = today
        /\ csv_files' = [csv_files EXCEPT ![today] = @ \o csv_batch]
        /\ csv_batch' = <<>>
        /\ UNCHANGED <<csv_queue, log_clock, shutdown_event, shutdown_at, csv_writer_task,
                       cleaned_up, save_rounds, last_enqueued, latest_prices, last_round,
                       coreVars, csvDeltaOthers>>

\* `while not self.shutdown_event.is_set()` found false at the top of the
\* writer's loop (price_logger.py:427).
WriterExit ==
    /\ csv_writer_task = "running"
    /\ shutdown_event
    /\ csv_batch = <<>>
    /\ csv_writer_task' = "finished"
    /\ UNCHANGED <<csv_queue, csv_batch, log_clock, current_date, csv_files, shutdown_event,
                   shutdown_at, cleaned_up, save_rounds, last_enqueued, deltaVars,
                   coreVars, csvDeltaOthers>>

\* _shutdown (price_logger.py:629-632).
_shutdown ==
    /\ ~shutdown_event
    /\ shutdown_event' = TRUE
    /\ shutdown_at' = log_clock
    /\ UNCHANGED <<csv_queue, csv_batch, log_clock, current_date, csv_files, csv_writer_task,
                   cleaned_up, save_rounds, last_enqueued, deltaVars, coreVars,
                   csvDeltaOthers>>

\* _cleanup (price_logger.py:634-669), run by run() once shutdown_event is
\* set: it cancels the consumer, the writer and the save task where they
\* still run; a cancelled writer drops the batch it holds.
_cleanup ==
    /\ shutdown_event
    /\ ~cleaned_up
    /\ cleaned_up' = TRUE
    /\ csv_writer_task' = IF csv_writer_task = "running" THEN "cancelled"
                          ELSE csv_writer_task
    /\ UNCHANGED <<csv_queue, csv_batch, log_clock, current_date, csv_files, shutdown_event,
                   shutdown_at, save_rounds, last_enqueued, deltaVars, coreVars,
                   csvDeltaOthers>>

\* The logger's UTC clock.
LogTick ==
    /\ log_clock < MaxLogClock
    /\ log_clock' = log_clock + 1
    /\ UNCHANGED <<csv_queue, csv_batch, current_date, csv_files, shutdown_event,
                   shutdown_at, csv_writer_task, cleaned_up, save_rounds, last_enqueued,
                   deltaVars, coreVars, csvDeltaOthers>>

\* ----------------------------------------------------- specifications
\* The life of one position under every venue answer, with concurrent
\* close_position callers.
LifecycleOpps == {o \in Opportunities : o.symbol = "BTC" /\ o.buy_exchange = "A"
                                        /\ o.buy_price = PriceStep}

Next ==
    \/ \E opp \in LifecycleOpps, env \in GateInputs : Validate1(1, opp, env)
    \/ \E env \in GateInputs : Validate2(1, env)
    \/ \E ans \in VenueAnswers(positions[1].size) : OpenPlaceLong(1, ans)
    \/ \E ans \in VenueAnswers(positions[1].size) : OpenPlaceShort(1, ans)
    \/ \E cb \in CallbackOutcomes : OpenCallbacks(1, cb)
    \/ \E c \in Closers : CloseCall(c, 1)
    \/ \E c \in Closers : \E ans \in VenueAnswers(TargetSize(c)) : ClosePlaceLong(c, ans)
    \/ \E c \in Closers : \E ans \in VenueAnswers(TargetSize(c)) : ClosePlaceShort(c, ans)
    \/ \E c \in Closers, cb \in CallbackOutcomes : CloseCallbacks(c, cb)

Spec == Init /\ [][Next]_vars

\* Several positions against the risk state, on two symbols and three
\* venues; the venues fill every order in full, or raise; each position has
\* its own close_position caller.
RiskOpps == {o \in Opportunities :
                /\ o.buy_price = PriceStep
                /\ <<o.buy_exchange, o.sell_exchange>> \in {<<"A", "B">>, <<"C", "A">>}}
RiskAnswers(size) ==
    {o \in VenueAnswers(size) : o = Raised \/ (o.status = "FILLED" /\ o.price # NoPrice)}

NextRisk ==
    \/ \E h \in Handlers, opp \in RiskOpps : Validate1(h, opp, AllOk)
    \/ \E h \in Handlers : Validate2(h, AllOk)
    \/ \E h \in Handlers : \E ans \in RiskAnswers(positions[h].size) : OpenPlaceLong(h, ans)
    \/ \E h \in Handlers : \E ans \in RiskAnswers(positions[h].size) : OpenPlaceShort(h, ans)
    \/ \E h \in Handlers, cb \in CallbackOutcomes : OpenCallbacks(h, cb)
    \/ \E c \in Closers \cap PosIds : CloseCall(c, c)
    \/ \E c \in Closers : \E ans \in RiskAnswers(TargetSize(c)) : ClosePlaceLong(c, ans)
    \/ \E c \in Closers : \E ans \in RiskAnswers(TargetSize(c)) : ClosePlaceShort(c, ans)
    \/ \E c \in Closers, cb \in CallbackOutcomes : CloseCallbacks(c, cb)

SpecRisk == Init /\ [][NextRisk]_vars

\* Opportunity handlers against the cooldown clock: no position is closed.
CooldownOpps == {o \in RiskOpps : o.buy_exchange = "A" /\ o.recommended_size = 1}

NextCooldown ==
    \/ \E h \in Handlers, opp \in CooldownOpps, env \in GateInputs : Validate1(h, opp, env)
    \/ \E h \in Handlers, env \in GateInputs : Validate2(h, env)
    \/ \E h \in Handlers : \E ans \in RiskAnswers(positions[h].size) : OpenPlaceLong(h, ans)
    \/ \E h \in Handlers : \E ans \in RiskAnswers(positions[h].size) : OpenPlaceShort(h, ans)
    \/ \E h \in Handlers : OpenCallbacks(h, "ok")
    \/ Tick

SpecCooldown == Init /\ [][NextCooldown]_vars

\* Direct callers of OrderManager.place_order, free to repeat a client id.
NextOrders ==
    \E cid \in DirectClientOrderIds :
        \E id \in VenueOrderIds(cid), ans \in VenueAnswers(1) : DirectPlaceOrder(cid, id, ans)

SpecOrders == Init /\ [][NextOrders]_vars

\* The detector under every threshold configuration of the set, fed the
\* tickers of one symbol from three venues.
SpreadThresholds == {0, default_min_spread_threshold}
ProfitThresholds == {0, default_min_profit_threshold}

InitDetector ==
    /\ InitExecution
    /\ min_spread_threshold \in SpreadThresholds
    /\ min_profit_threshold \in ProfitThresholds

NextDetector ==
    \/ \E exchange \in Venues, ticker \in Tickers : update_price("BTC", exchange, ticker)
    \/ CheckArbitrage("BTC")

SpecDetector == InitDetector /\ [][NextDetector]_vars

\* The block lists under block calls with the default duration, connection
\* events and the clock.
NextBlocks ==
    \/ \E symbol \in Symbols : block_symbol(symbol, default_block_minutes)
    \/ \E exchange \in Venues : BlockExchange(exchange, default_block_minutes)
    \/ \E exchange \in Venues : _on_connection_failed(exchange)
    \/ \E exchange \in Venues : _on_connection_restored(exchange)
    \/ TickHalfHour

SpecBlocks == Init /\ [][NextBlocks]_vars

\* Shutdown against opportunity handlers in flight; opportunities arrive
\* only while the bot is running.
NextShutdown ==
    \/ Start
    \/ StopBegin
    \/ \E outcome \in StopOutcomes : StopCloseAll(outcome)
    \/ \E p \in PosIds \cap Closers : StopCloseCall(p)
    \/ StopReturn
    \/ \E h \in Handlers, opp \in CooldownOpps : running /\ Validate1(h, opp, AllOk)
    \/ \E h \in Handlers : Validate2(h, AllOk)
    \/ \E h \in Handlers : \E ans \in RiskAnswers(positions[h].size) : OpenPlaceLong(h, ans)
    \/ \E h \in Handlers : \E ans \in RiskAnswers(positions[h].size) : OpenPlaceShort(h, ans)
    \/ \E h \in Handlers : OpenCallbacks(h, "ok")
    \/ \E c \in Closers : \E ans \in RiskAnswers(TargetSize(c)) : ClosePlaceLong(c, ans)
    \/ \E c \in Closers : \E ans \in RiskAnswers(TargetSize(c)) : ClosePlaceShort(c, ans)
    \/ \E c \in Closers : CloseCallbacks(c, "ok")

SpecShutdown == Init /\ [][NextShutdown]_vars

\* One order placed and monitored under every sequence of poll results.
MonitoredOrders == {o \in VenueOrders(1) : o.status = "OPEN" /\ o.price = PriceStep}

NextMonitor ==
    \/ \E ans \in MonitoredOrders :
           /\ active_orders = {}
           /\ DirectPlaceOrder(ClientOrderId(0, "long"),
                               FreshOrderId(ClientOrderId(0, "long")), ans)
    \/ \E o \in active_orders : MonitorBegin(o)
    \/ \E ans \in PollAnswers : MonitorPoll(ans)

SpecMonitor == Init /\ [][NextMonitor]_vars

\* The detector fed tickers that carry the venue's timestamp, in any
\* order of arrival.
StampedTickers ==
    {t \in [bid : TickerPrices, ask : TickerPrices, volume_24h : {NoVolume},
            timestamp : 1..MaxTimestamp] : t.bid = t.ask}

NextStamped ==
    \E exchange \in Venues, ticker \in StampedTickers : update_price("BTC", exchange, ticker)

SpecStamped == Init /\ [][NextStamped]_vars

\* The detector with its default thresholds, fed tickers on a price grid
\* wide enough for qualifying pairs of different spreads.
SpreadTickers ==
    {t \in [bid : 100..102, ask : 100..102, volume_24h : {NoVolume}] : t.bid = t.ask}

NextSpread ==
    \E exchange \in Venues, ticker \in SpreadTickers : update_price("BTC", exchange, ticker)

SpecSpread == Init /\ [][NextSpread]_vars

\* The venues' reader tasks feeding one symbol's quotes to update_price, each
\* call suspended while its callback runs, under the default thresholds.
FlatTickers == {t \in Tickers : t.bid = t.ask /\ t.volume_24h = NoVolume}

NextDelivery ==
    \/ \E exchange \in Venues, ticker \in FlatTickers :
           UpdatePriceCall("BTC", exchange, ticker)
    \/ \E exchange \in Venues : CallbackReturns(exchange)

SpecDelivery == Init /\ [][NextDelivery]_vars

\* The recorder: producers, the consumer and the clock.
NextRecorder ==
    \/ \E exchange_name \in Venues, ticker \in FlatTickers :
           price_callback(exchange_name, ticker)
    \/ PriceConsumerGet
    \/ ClockSecond

SpecRecorder == Init /\ [][NextRecorder]_vars

\* The adapters fed frames of every bid/ask shape, all of one venue time.
FramePrices == {0, 99, 100}
QuoteFrames == [bid : FramePrices, ask : FramePrices, last : {0, 100}, ts : {0}]

NextQuotes ==
    \/ \E data \in QuoteFrames : BitgetTicker("BTC", data)
    \/ \E data \in QuoteFrames : BitgetBooks("BTC", data)
    \/ \E data \in QuoteFrames : BitgetTrade("BTC", data)
    \/ \E data \in QuoteFrames : BybitTicker("BTC", data)
    \/ \E data \in QuoteFrames : BybitBooks("BTC", data)
    \/ \E data \in QuoteFrames : BybitTrade("BTC", data)

SpecQuotes == Init /\ [][NextQuotes]_vars

\* The adapters fed well-formed frames with every venue timestamp, while the
\* adapters' own clock advances.
TimedFrames == [bid : {99}, ask : {100}, last : {100}, ts : 0..MaxFrameTime]

NextThrottle ==
    \/ \E data \in TimedFrames : BitgetTicker("BTC", data)
    \/ \E data \in TimedFrames : BitgetBooks("BTC", data)
    \/ \E data \in TimedFrames : BitgetTrade("BTC", data)
    \/ \E data \in TimedFrames : BybitTicker("BTC", data)
    \/ WallTick

SpecThrottle == Init /\ [][NextThrottle]_vars

\* The supervisor, its adapter, the transport and the clock.
NextSupervisor ==
    \/ \E symbols \in SUBSET Symbols \ {{}}, outcome \in ConnectOutcomes :
           \E sent \in SUBSET symbols : add_exchange(symbols, outcome, sent)
    \/ TransportLoss
    \/ \E outcome \in ConnectOutcomes : MonitorConnection(outcome)
    \/ Tick

SpecSupervisor == Init /\ [][NextSupervisor]_vars

\* The detector configured with a spread threshold that the price grid meets
\* exactly (twice the default: 1.00 %), with the default one below it and
\* with one above every spread of the grid.
BoundaryThresholds ==
    {default_min_spread_threshold, 2 * default_min_spread_threshold,
     3 * default_min_spread_threshold}

InitBoundary ==
    /\ InitExecution
    /\ min_spread_threshold \in BoundaryThresholds
    /\ min_profit_threshold = default_min_profit_threshold

NextBoundary ==
    \E exchange \in Venues, ticker \in Tickers : update_price("BTC", exchange, ticker)

SpecBoundary == InitBoundary /\ [][NextBoundary]_vars

\* The estimators called on every book side of up to MaxLevels levels with
\* every positive size up to one more than the deepest book holds.
BookLevels == {100, 101} \X (1..MaxVolume)
Books == UNION {[1..n -> BookLevels] : n \in 0..MaxLevels}
Quantities == 1..(MaxLevels * MaxVolume + 1)

NextSlippage ==
    \/ \E levels \in Books, quantity \in Quantities : DefaultSlippage(levels, quantity)
    \/ \E levels \in Books, quantity \in Quantities : InterfaceSlippage(levels, quantity)

SpecSlippage == Init /\ [][NextSlippage]_vars

\* The monitor over the quotes of the position's two venues: spreads of
\* -0.1 % to 0.2 % around the long venue's ask, and marks with no loss, a
\* small loss and a loss past the stop.
LongTickers == [bid : {EntryLongPrice}, ask : {EntryLongPrice}, mark_price : {EntryLongPrice - 20, EntryLongPrice - 1, EntryLongPrice}]
ShortTickers == [bid : (EntryLongPrice - 1)..(EntryLongPrice + 2), ask : {EntryShortPrice}, mark_price : {EntryShortPrice}]

NextConvergence ==
    \/ \E ticker \in LongTickers : AggregatorCachePut(LongVenue, ticker)
    \/ \E ticker \in ShortTickers : AggregatorCachePut(ShortVenue, ticker)
    \/ MonitoredOpens
    \/ DayPasses
    \/ _monitor_positions

SpecConvergence == Init /\ [][NextConvergence]_vars

\* The periodic task alone, from the start of the bot to the horizon.
SpecDaily == Init /\ [][NextDaily]_vars

\* The delta recorder of one symbol under every quote stream.
SpecDelta == Init /\ [][NextDelta]_vars

\* A quote stream recorded in delta mode and replayed both ways, with the
\* default thresholds of the logger and of the detector.
SpecReplay == Init /\ [][NextReplay]_vars

\* The backtest over every price log of up to MaxRows rows.
SpecBacktest == Init /\ [][NextBacktest]_vars

\* Up to MaxPositions opportunity handlers run concurrently against one risk
\* state; every opportunity is for BTC, bought on venue A and sold on venue
\* B, of the largest value the gate accepts; the venues fill every order in
\* full, or raise; the registered callbacks return.
LimitOpps == {o \in RiskOpps : /\ o.buy_exchange = "A"
                               /\ o.symbol = "BTC"
                               /\ o.recommended_size * o.buy_price = max_position_size}

NextLimits ==
    \/ \E h \in PosIds, opp \in LimitOpps : Validate1(h, opp, AllOk)
    \/ \E h \in PosIds : Validate2(h, AllOk)
    \/ \E h \in PosIds : \E ans \in RiskAnswers(positions[h].size) : OpenPlaceLong(h, ans)
    \/ \E h \in PosIds : \E ans \in RiskAnswers(positions[h].size) : OpenPlaceShort(h, ans)
    \/ \E h \in PosIds : OpenCallbacks(h, "ok")

SpecLimits == Init /\ [][NextLimits]_vars

\* The supervised adapter under the bot: added, losing and regaining its
\* transport, and emitting quotes while it is connected.
NextWiring ==
    \/ \E symbols \in SUBSET Symbols \ {{}}, outcome \in ConnectOutcomes :
           \E sent \in SUBSET symbols : add_exchange(symbols, outcome, sent)
    \/ TransportLoss
    \/ \E outcome \in ConnectOutcomes : MonitorConnection(outcome)
    \/ \E ticker \in FlatTickers : AdapterEmit(ticker)

SpecWiring == Init /\ [][NextWiring]_vars /\ WF_vars(NextWiring)

\* The CSV pipeline of one symbol on one venue: the consumer's newest
\* quote, the save task, the writer task, the clock across a UTC midnight and
\* the shutdown.
NextCsv ==
    \/ \E v \in DeltaVenues, ticker \in CsvTickers :
           ~shutdown_event /\ latest_prices_put(v, ticker)
    \/ \E cleanup \in BOOLEAN : save_prices_round(0, cleanup)
    \/ WriterGet
    \/ WriterWrite
    \/ WriterExit
    \/ _shutdown
    \/ _cleanup
    \/ LogTick

SpecCsv == Init /\ [][NextCsv]_vars

\* ------------------------------------------------------------- claims
\* C1: a position with status OPEN has a long and a short order with equal
\* filled quantities, and its size equals that filled quantity.
C1_OpenLegsEqual ==
    \A p \in PosIds :
        positions[p].status = "OPEN" =>
            /\ positions[p].long_order.filled = positions[p].short_order.filled
            /\ positions[p].size = positions[p].long_order.filled

\* C2: a position's status changes only along PENDING->OPENING,
\* OPENING->OPEN, OPENING->FAILED, OPEN->CLOSING, CLOSING->CLOSED and
\* CLOSING->FAILED.
AllowedEdges ==
    {<<"PENDING", "OPENING">>, <<"OPENING", "OPEN">>, <<"OPENING", "FAILED">>,
     <<"OPEN", "CLOSING">>, <<"CLOSING", "CLOSED">>, <<"CLOSING", "FAILED">>}
C2_OnlyLifecycleEdges == status_edges \subseteq AllowedEdges

\* C3: concurrent close_position calls on one position collapse to one
\* close: at most one caller performs OPEN->CLOSING, at most one close-long
\* and one close-short order are submitted, and a caller that did not
\* perform the transition returns False.
C3_SingleClose ==
    /\ \A p \in PosIds :
        /\ Cardinality({c \in Closers : ctarget[c] = p /\ cbegan[c]}) <= 1
        /\ venue_submitted[ClientOrderId(p, "close_long")] <= 1
        /\ venue_submitted[ClientOrderId(p, "close_short")] <= 1
    /\ \A c \in Closers :
        ~cbegan[c] => /\ cpc[c] \in {"idle", "done"}
                      /\ cpc[c] = "done" => cresult[c] = "false"

\* Two callers targeted the position while it was being closed: one holds
\* the close, the other has returned False.
C3_Witness ==
    \E c1, c2 \in Closers :
        /\ c1 # c2
        /\ ctarget[c1] = ctarget[c2]
        /\ cbegan[c1] /\ cpc[c1] \in {"close_long", "close_short", "closed_cb"}
        /\ ~cbegan[c2] /\ cpc[c2] = "done" /\ cresult[c2] = "false"

\* C4: a position that ends FAILED because exactly one opening leg was
\* rejected or failed to submit leaves no filled leg: the code submits no
\* cancelling or flattening order, so the other leg must have filled nothing.
LegFailed(o, cid) ==
    \/ o.status = "REJECTED"
    \/ o = NoOrder /\ venue_submitted[cid] > 0
C4_NoUnhedgedLeg ==
    \A p \in PosIds :
        LET longFailed == LegFailed(positions[p].long_order, ClientOrderId(p, "long"))
            shortFailed == LegFailed(positions[p].short_order, ClientOrderId(p, "short"))
        IN  (positions[p].status = "FAILED" /\ hpc[p] = "done" /\ longFailed # shortFailed)
                => /\ longFailed => positions[p].short_order.filled = 0
                   /\ shortFailed => positions[p].long_order.filled = 0

\* C5: a position becomes OPEN only once both opening legs have the same
\* filled quantity (after a correcting order when they filled unequally).
C5_OpenOnlyWhenReconciled ==
    [][\A p \in PosIds :
          (positions[p].status # "OPEN" /\ positions'[p].status = "OPEN")
              => positions'[p].long_order.filled = positions'[p].short_order.filled]_vars

\* C6: a position with status CLOSED has a close-long and a close-short
\* order, both fully filled.
FullyFilled(o) == o.status = "FILLED" /\ o.filled = o.quantity /\ o.quantity > 0
C6_ClosedOrdersFilled ==
    \A p \in PosIds :
        positions[p].status = "CLOSED" =>
            /\ FullyFilled(positions[p].close_long_order)
            /\ FullyFilled(positions[p].close_short_order)

\* C7: place_order is idempotent on client_order_id: at most one order per
\* client id is submitted to the venue, and a repeated call creates no
\* further order.
C7_PlaceOrderIdempotent ==
    \A cid \in ClientOrderIds :
        /\ venue_submitted[cid] <= 1
        /\ Cardinality({o \in active_orders : o.client_order_id = cid}) <= 1

\* C8: every emitted opportunity has sell_price > buy_price, a spread
\* percentage of at least min_spread_threshold and an expected profit of at
\* least min_profit_threshold.
C8_EmittedWithinThresholds ==
    \A i \in DOMAIN emitted :
        /\ emitted[i].sell_price > emitted[i].buy_price
        /\ ~FracLess(emitted[i].spread_percentage, min_spread_threshold)
        /\ ~FracLess(emitted[i].expected_profit, min_profit_threshold)

\* C9: once an opportunity for a symbol was accepted at time t, a further
\* opportunity for that symbol validated by another handler before
\* t + cooldown_period is rejected (the claim names the cooldown reason; the
\* formula asks only that the verdict is not an acceptance).
C9_CooldownRejects ==
    [][\A h \in PosIds :
          LET s == hopp[h].symbol
          IN  (/\ hpc[h] = "slippage" /\ hpc'[h] # "slippage"
               /\ gate_accepted[s].time # NoTime
               /\ gate_accepted[s].h # h
               /\ now < gate_accepted[s].time + cooldown_period)
                  => hreason'[h] # "passed"]_vars

\* C10 (as stated): the per-venue exposures sum to the per-symbol exposures.
C10_VenueSumEqualsSymbolSum ==
    SumOver(exchange_exposure, Venues) = SumOver(current_exposure, Symbols)

\* C10 (amended): with the opened and closed updates the position manager
\* delivers (a closed update follows the opened update of the same position,
\* once), the per-venue exposures sum to twice the per-symbol exposures:
\* every position's value is booked on its long and on its short venue.
C10_VenueSumTwiceSymbolSum ==
    SumOver(exchange_exposure, Venues) = 2 * SumOver(current_exposure, Symbols)

\* One position has been closed and its update applied while another
\* position's value is still booked.
C10_Witness ==
    /\ \E c \in Closers : cpc[c] = "done" /\ cresult[c] = "true"
    /\ SumOver(current_exposure, Symbols) > 0
    /\ SumOver(exchange_exposure, Venues) > 0

\* C11: every block placed on a venue or a symbol is lifted automatically:
\* once the block's duration has passed, the venue or symbol is no longer
\* in its block list.
C11_BlocksExpire ==
    \A x \in blocked_symbols \cup blocked_exchanges : now <= block_expiry[x]

\* C12: after stop() has returned, no position has status OPEN or OPENING.
C12_StoppedMeansClosed ==
    spc = "returned" =>
        \A p \in PosIds : positions[p].status \notin {"OPEN", "OPENING"}

\* C13: the monitor of an order terminates after at most max_attempts (60)
\* status queries: it never makes a further one.
C13_MonitorBounded == mpolls <= max_attempts

\* C14: a price update older than the quote stored in its (symbol, venue)
\* slot is ignored: the stored timestamp of a slot never decreases.
C14_TimestampNeverDecreases ==
    [][\A s \in Symbols : \A i \in DOMAIN price_cache[s] :
          price_cache'[s][i].ticker.timestamp >= price_cache[s][i].ticker.timestamp]_vars

\* C15: the qualifying directional pairs of one price update are all
\* emitted, in non-increasing order of spread_percentage.
FracGeq(f, g) == f.num * g.den >= g.num * f.den
Qualifies(buy, sell) ==
    _check_opportunity(buy.exchange, buy.ticker, sell.exchange, sell.ticker, "BTC", 0).id
        # NoDetection.id
C15_AllEmittedBySpreadDescending ==
    LET prices == price_cache["BTC"]
    IN  /\ \A i, j \in DOMAIN prices :
              (i # j /\ Qualifies(prices[i], prices[j])) =>
                  \E k \in DOMAIN emitted :
                      /\ emitted[k].buy_exchange = prices[i].exchange
                      /\ emitted[k].sell_exchange = prices[j].exchange
        /\ \A k, l \in DOMAIN emitted :
              k < l => FracGeq(emitted[k].spread_percentage, emitted[l].spread_percentage)

\* C16: opportunity callbacks for a symbol are delivered in the order in
\* which their triggering quotes arrived.
C16_DeliveredInArrivalOrder ==
    \A i, j \in DOMAIN delivered : i < j => delivered[i] <= delivered[j]

\* C17: the recorder's queue never holds more than its maximum; a quote that
\* arrives when the queue is full is discarded and the queued quotes are left
\* as they were; a quote is discarded only then; any two overflow warnings
\* are at least the warning interval apart.
C17_QueueBoundedDropsNewest ==
    /\ Len(price_queue) <= MaxQueue
    /\ last_call.outcome = "dropped" =>
           /\ Len(last_call.before) = MaxQueue
           /\ last_call.after = last_call.before
    /\ last_call.outcome = "queued" =>
           last_call.after = Append(last_call.before, last_call.quote)
    /\ \A i, j \in DOMAIN warnings :
           i < j => warnings[j] - warnings[i] >= queue_full_warning_interval

\* C17 witness: the queue is full, the last quote was discarded without a
\* warning, and two warnings have been logged.
C17_Witness ==
    /\ Len(price_queue) = MaxQueue
    /\ last_call.outcome = "dropped"
    /\ Len(warnings) = 2
    /\ clock > warnings[2]

\* C18: every quote an adapter passes to its price callbacks has bid > 0,
\* ask > 0 and bid <= ask.
C18_PassedQuotesWellFormed ==
    last_event.outcome = "emitted" =>
        /\ last_event.bid > 0
        /\ last_event.ask > 0
        /\ last_event.bid <= last_event.ask

\* C20: per venue and stream kind, a quote passed on after another of the same
\* stream is at least the kind's minimum gap after it, and a frame is dropped
\* by the rate limit only when it is within the gap of its own stream.
MinGap(kind) == CASE kind = "ticker" -> ticker_gap [] kind = "books" -> orderbook_gap [] kind = "trade" -> trade_gap
GapsRespected(venue) ==
    last_event.venue = venue =>
        /\ (last_event.outcome = "emitted" /\ ~last_event.first) =>
               last_event.since >= MinGap(last_event.kind)
        /\ last_event.outcome = "throttled" =>
               (~last_event.first /\ last_event.since < MinGap(last_event.kind))
C20_StreamGapsRespected == \A venue \in Adapters : GapsRespected(venue)

\* C19: once the supervisor has reconnected the adapter after a transport
\* loss, the adapter is subscribed to the symbols it was subscribed to before.
C19_ResubscribedAfterReconnect ==
    (restored /\ is_connected) => subscribed_symbols = subscribed_before_loss

\* C21: a directional pair whose spread percentage equals min_spread_threshold
\* is emitted whenever its recommended size is positive and its expected
\* profit is at least min_profit_threshold.
AtThreshold(buy, sell) ==
    (sell.bid - buy.ask) * 100 * 100 = min_spread_threshold * buy.ask
SizeAndProfitPass(buy, sell) ==
    LET size == _calculate_optimal_size(buy, sell)
    IN  /\ size.num > 0
        /\ (sell.bid - buy.ask) * size.num >= min_profit_threshold * size.den
C21_ThresholdSpreadQualifies ==
    LET prices == price_cache["BTC"]
    IN  \A i, j \in DOMAIN prices :
            (/\ i # j
             /\ AtThreshold(prices[i].ticker, prices[j].ticker)
             /\ SizeAndProfitPass(prices[i].ticker, prices[j].ticker)) =>
                \E k \in DOMAIN emitted :
                    /\ emitted[k].buy_exchange = prices[i].exchange
                    /\ emitted[k].sell_exchange = prices[j].exchange

\* C21 witness: an emitted opportunity whose spread percentage is the
\* (positive) threshold itself.
C21_Witness ==
    /\ min_spread_threshold > 0
    /\ \E k \in DOMAIN emitted :
           emitted[k].spread_percentage.num =
               min_spread_threshold * emitted[k].spread_percentage.den

\* C22: with fewer than two venues cached for the symbol nothing is emitted;
\* with exactly two, a direction is emitted exactly when it meets the spread,
\* size and profit tests, so one qualifying direction gives exactly one
\* opportunity in that direction and none gives nothing.
Meets(buy, sell) ==
    /\ (sell.bid - buy.ask) * 100 * 100 >= min_spread_threshold * buy.ask
    /\ SizeAndProfitPass(buy, sell)
OnlyEmitted(buy, sell) ==
    /\ Len(emitted) = 1
    /\ emitted[1].buy_exchange = buy.exchange
    /\ emitted[1].sell_exchange = sell.exchange
C22_PairEmission ==
    LET prices == price_cache["BTC"]
    IN  /\ Len(prices) < 2 => emitted = <<>>
        /\ Len(prices) = 2 =>
               LET a == prices[1]
                   b == prices[2]
                   ab == Meets(a.ticker, b.ticker)
                   ba == Meets(b.ticker, a.ticker)
               IN  /\ (ab /\ ~ba) => OnlyEmitted(a, b)
                   /\ (ba /\ ~ab) => OnlyEmitted(b, a)
                   /\ (~ab /\ ~ba) => emitted = <<>>

\* C22 witness: two venues cached, the second-cached venue the cheaper one,
\* and the one opportunity emitted buys there.
C22_Witness ==
    LET prices == price_cache["BTC"]
    IN  /\ Len(prices) = 2
        /\ Meets(prices[2].ticker, prices[1].ticker)
        /\ ~Meets(prices[1].ticker, prices[2].ticker)
        /\ OnlyEmitted(prices[2], prices[1])

\* C23: when the requested size equals the total size of the book side the
\* estimate is |avgFill - best| / best * 100; when it is larger, the estimate
\* is the sentinel 999.
RECURSIVE TotalVolume(_)
TotalVolume(levels) == IF levels = <<>> THEN 0 ELSE Head(levels)[2] + TotalVolume(Tail(levels))
RECURSIVE TotalCost(_)
TotalCost(levels) ==
    IF levels = <<>> THEN 0 ELSE Head(levels)[1] * Head(levels)[2] + TotalCost(Tail(levels))
C23_ExhaustedBookFiniteElseSentinel ==
    estimator # "none" =>
        /\ (book # <<>> /\ requested = TotalVolume(book)) =>
               /\ slippage.outcome = "value"
               /\ slippage.num * (requested * book[1][1]) =
                      Abs(TotalCost(book) - book[1][1] * requested) * 100 * slippage.den
        /\ requested > TotalVolume(book) =>
               (/\ slippage.outcome = "value"
                /\ slippage.num = infeasible_slippage * slippage.den)

\* C24: a round of the monitor that finds the position OPEN with both quotes
\* cached selects it for a convergence close only when the absolute current
\* spread is at most the exit target, and closes it whenever it is.
WithinExitTarget == Abs(selection.spread) * 100 * 100 <= exit_spread_target * selection.ask
C24_ConvergenceCloseIffWithinTarget ==
    /\ selection.reason = "spread_convergence" => WithinExitTarget
    /\ (selection.reason = "kept" /\ selection.status = "OPEN") => ~WithinExitTarget

\* C25: whenever a position becomes FAILED, while opening or while closing,
\* from a raising order call or from orders that come back unfilled, the
\* registered position_failed callback runs exactly once for it.
C25_FailedCallbackOncePerFailure ==
    [][\A p \in PosIds :
          (positions[p].status # "FAILED" /\ positions'[p].status = "FAILED")
              => position_failed_calls'[p] = position_failed_calls[p] + 1]_vars

\* C26: while the bot runs, reset_daily_stats is executed exactly once for
\* every UTC day boundary that passes: once the UTC day after a boundary is
\* over, exactly one run of the reset lies in it.
C26_ResetOncePerUtcDay ==
    \A day \in 1..MaxDays :
        utc_now >= (day + 1) * SecondsPerDay => reset_runs[day] = 1

\* The relative change from `last` to `new` is strictly above the threshold.
ChangedBeyondThreshold(new, last) ==
    /\ new # NoPrice
    /\ last # NoPrice
    /\ Abs(new - last) * price_change_threshold_inverse > last

\* C27: a quote of a slot is written if and only if the slot has no recorded
\* quote, or the quote's bid or ask is missing, or its bid or its ask differs
\* from the last recorded one by a relative amount strictly greater than the
\* threshold; a change exactly equal to the threshold is not written.
C27_WrittenIffChanged ==
    \A v \in DeltaVenues :
        last_round.latest[v] # NoQuote =>
            (v \in last_round.csv_items <=>
                \/ last_round.saved[v] = NoQuote
                \/ last_round.latest[v].bid = NoPrice
                \/ last_round.latest[v].ask = NoPrice
                \/ ChangedBeyondThreshold(last_round.latest[v].bid, last_round.saved[v].bid)
                \/ ChangedBeyondThreshold(last_round.latest[v].ask, last_round.saved[v].ask))

\* C28: for any quote stream of one symbol, the detector run on the
\* delta-recorded sub-stream decides the same opportunities, same directions
\* in the same order, as the detector run on the full stream, the delta
\* threshold being smaller than half the minimum spread.
C28_RecordedStreamDecidesAlike ==
    (2 * 100 * 100 < default_min_spread_threshold * price_change_threshold_inverse)
        => delta_decisions = full_decisions

\* C29: in the backtest, every entry is recorded in open_positions, at most
\* one position per symbol is open, every close appends one trade and removes
\* the position, and when run_backtest has returned open_positions is empty
\* and there are as many closed trades as positions entered.
C29_BacktestBookkeeping ==
    /\ \A i, j \in DOMAIN open_positions :
           open_positions[i].symbol = open_positions[j].symbol => i = j
    /\ entered = Len(closed_trades) + Len(open_positions)
    /\ backtest = "returned" => (open_positions = <<>> /\ Len(closed_trades) = entered)

\* C29 witness: the backtest has returned after a close on convergence and a
\* forced close.
C29_Witness ==
    /\ backtest = "returned"
    /\ Len(closed_trades) = 2
    /\ \E i \in DOMAIN closed_trades : ~FracLeq(FracAbs(closed_trades[i].exit_spread), exit_threshold)
    /\ \E i \in DOMAIN closed_trades : FracLeq(FracAbs(closed_trades[i].exit_spread), exit_threshold)

\* (entry spread - exit spread) - 4 * fee - 2 * slippage of a trade, all in
\* percent, the fee term being fee_rate * 4 * 100.
SpreadFormula(trade) ==
    FracSub(FracSub(FracSub(trade.entry_spread, trade.exit_spread),
                    FracTimes(fee_rate, 4 * 100)),
            FracTimes(slippage_rate, 2 * 100))

\* |f| <= 1e-6.
WithinTolerance(f) == Abs(f.num) <= f.den \div (10 ^ 6)

\* C30: the net_profit_pct of every trade the backtest has closed equals
\* (entry spread - exit spread) - 4 * fee - 2 * slippage, in percent, within 1e-6.
C30_NetProfitIsSpreadFormula ==
    \A i \in DOMAIN closed_trades :
        WithinTolerance(FracSub(closed_trades[i].net_profit_pct,
                                SpreadFormula(closed_trades[i])))

\* C31: when positions are opened only after validate_opportunity accepted
\* them, the sum of the per-symbol exposures is at most max_total_exposure and
\* each venue's exposure is at most max_exchange_exposure, also when several
\* opportunities are validated while earlier accepted positions are OPENING.
C31_ExposureWithinLimits ==
    /\ SumOver(current_exposure, Symbols) <= max_total_exposure
    /\ \A v \in Venues : exchange_exposure[v] <= max_exchange_exposure

\* C32: when positions are opened only through the opportunity handler, the
\* number of active positions is at most max_total_positions and the number
\* of active positions of any one symbol is at most max_positions_per_symbol,
\* under every interleaving of the handlers.
SymbolPositions(s) == {p \in active_positions : positions[p].symbol = s}
C33_ExposureReleasedAtTerminal ==
    /\ (\A p \in PosIds : positions[p].status \notin {"OPEN", "CLOSING"})
          => /\ \A s \in Symbols : current_exposure[s] = 0
             /\ \A v \in Venues : exchange_exposure[v] = 0
    /\ \A s \in Symbols : current_exposure[s] >= 0
    /\ \A v \in Venues : exchange_exposure[v] >= 0

\* C34: active_positions holds only positions with status OPENING, OPEN or
\* CLOSING, position_history holds only positions with status CLOSED or
\* FAILED, and every position that exists is in exactly one of the two; in
\* particular a position that fails while closing leaves active_positions.
InHistory(p) == \E i \in DOMAIN position_history : position_history[i] = p
C34_ActiveAndHistoryByStatus ==
    \A p \in PosIds :
        positions[p].status # "NONE" =>
            /\ p \in active_positions => positions[p].status \in {"OPENING", "OPEN", "CLOSING"}
            /\ InHistory(p) => positions[p].status \in {"CLOSED", "FAILED"}
            /\ (p \in active_positions) # InHistory(p)

\* C35: an exception raised by a position_opened or position_closed callback
\* does not change the outcome: the step that runs the position_opened
\* callbacks leaves the position's status (OPEN after two filled orders) and
\* its place in active_positions as they were, and the step that runs the
\* position_closed callbacks ends with the position CLOSED and in
\* position_history.
C35_CallbackExceptionKeepsOutcome ==
    [][/\ \A h \in PosIds :
            (hpc[h] = "opened_cb" /\ hpc'[h] # "opened_cb") =>
                /\ positions'[h].status = positions[h].status
                /\ (h \in active_positions') = (h \in active_positions)
       /\ \A c \in Closers :
            (cpc[c] = "closed_cb" /\ cpc'[c] # "closed_cb") =>
                /\ positions'[ctarget[c]].status = "CLOSED"
                /\ \E i \in DOMAIN position_history' :
                        position_history'[i] = ctarget[c]]_vars

\* C36: every normalized quote emitted by an adapter that was added with
\* add_exchange is delivered to ArbitrageDetector.update_price (whose first
\* statement writes the quote into price_cache), through the hub's
\* ticker_update event and the price aggregator.
C36_EmittedQuotesReachDetector ==
    (quotes_emitted # <<>>) ~> (price_cache["BTC"] # <<>>)

\* C37: every row in a venue's log file of UTC day D carries a timestamp of
\* UTC day D; a row stamped before midnight and still queued at the rollover
\* is not written into the new day's file.
C37_RowsInTheirDaysFile ==
    \A d \in DOMAIN csv_files :
        \A i \in DOMAIN csv_files[d] : LogDay(csv_files[d][i].timestamp) = d

\* C38: last_saved_prices[venue] is the most recent quote of the slot that
\* csv_queue accepted; a quote dropped at a full queue does not become the
\* baseline. (A baseline forgotten at the change of date is left out.)
C38_BaselineIsLastEnqueued ==
    \A v \in DeltaVenues :
        last_saved_prices[v] # NoQuote => last_saved_prices[v] = last_enqueued[v]

\* C39: once the writer has stopped, every row that csv_queue accepted before
\* the shutdown began has been written, unless time has passed since the
\* shutdown began.
C39_QueuesDrainedOnShutdown ==
    csv_writer_task # "running" =>
        \/ csv_queue = <<>> /\ csv_batch = <<>>
        \/ log_clock > shutdown_at

====
